---- MODULE Spec2Model ----
(***************************************************************************)
(* Recommendation aggregation and caching layer of the MovieAdvisor app.   *)
(*                                                                         *)
(*   utils/simpleRecommendations.ts   generalCache / personalizedCache,    *)
(*                                    getMoviesFromAPI, getTVShowsFromAPI, *)
(*                                    category builders, refresh           *)
(*   hooks/useSimpleRecommendations.ts  loadData / refresh of the hook     *)
(*   utils/genreStorage.ts, utils/storage.ts   the genre preference store  *)
(*                                                                         *)
(* The runtime is a single-threaded event loop.  Every await of the source *)
(* is a scheduling point: an async function is modelled as a sequence of   *)
(* atomic steps, one per continuation, and the position of every call in   *)
(* flight is part of the state.                                            *)
(***************************************************************************)
EXTENDS Integers, Sequences, FiniteSets, TLC

(***************************************************************************)
(* Bounds of the model                                                     *)
(***************************************************************************)
NumCallers == 1        \* slots for invocations of the hook's loadData / refresh
MaxOps == 2            \* loads and refreshes started in one behaviour
MaxWrites == 1         \* preference writes started in one behaviour
MaxTicks == 2          \* clock advances in one behaviour
TickMs == 150000       \* milliseconds per clock advance
NumSearches == 2       \* slots for invocations of performSearch in flight
MaxQueries == 2        \* distinct queries a session submits
MaxExtraSearches == 2  \* further invocations of performSearch in a session
MaxFillQueries == 11   \* distinct queries of a session that fills the cache
MaxFillExtras == 1     \* further invocations of performSearch in it
MaxFailures == 1       \* upstream and history failures in a session
MaxToggles == 2        \* changes of the genre filter in a session
MaxPrefWrites == 2     \* preference writes a settings session makes
MaxKeyFilters == 2     \* genre filters of a search whose key is computed

(***************************************************************************)
(* Program constants                                                       *)
(***************************************************************************)
CACHE_DURATION == 5 * 60 * 1000
CategoryLimit == 20
MinPreferences == 3
TopGenreCount == 2

NULL == "null"

(***************************************************************************)
(* Array helpers (Array.prototype.includes / filter / findIndex / sort)    *)
(***************************************************************************)
Range(s) == {s[i] : i \in 1..Len(s)}

Includes(s, x) == x \in Range(s)

Min(a, b) == IF a < b THEN a ELSE b

Take(s, n) == SubSeq(s, 1, Min(n, Len(s)))

\* self.findIndex(m => m.id === id), 1-based; 0 when absent
FindIndex(self, id) ==
  IF \E i \in 1..Len(self) : self[i].id = id
    THEN CHOOSE i \in 1..Len(self) :
           /\ self[i].id = id
           /\ \A j \in 1..(i - 1) : self[j].id # id
    ELSE 0

\* Array.prototype.sort((a, b) => key(b) - key(a)): stable, descending by key.
\* keys[i] is the key of s[i].
StableSortDesc(s, keys) ==
  LET n == Len(s)
      Rank(i) == Cardinality({j \in 1..n :
                   \/ keys[j] > keys[i]
                   \/ (keys[j] = keys[i] /\ j < i)}) + 1
  IN [p \in 1..n |-> s[CHOOSE i \in 1..n : Rank(i) = p]]

SortByPopularity(s) == StableSortDesc(s, [i \in 1..Len(s) |-> s[i].popularity])

SortByRating(s) == StableSortDesc(s, [i \in 1..Len(s) |-> s[i].vote_average])

(***************************************************************************)
(* Upstream catalog data.  A raw TMDb item carries the fields the engine   *)
(* reads; the same id may come back with different field values on         *)
(* different calls.  Movie and series ids are separate namespaces.         *)
(***************************************************************************)
RawMovieA == [id |-> 1, title |-> "m1", vote_average |-> 7, popularity |-> 2,
              genre_ids |-> <<28, 12>>]
RawMovieA2 == [id |-> 1, title |-> "m1", vote_average |-> 8, popularity |-> 2,
               genre_ids |-> <<28, 12>>]
RawMovieB == [id |-> 2, title |-> "m2", vote_average |-> 9, popularity |-> 1,
              genre_ids |-> <<16>>]
RawTVA == [id |-> 1, name |-> "s1", vote_average |-> 8, popularity |-> 3,
           genre_ids |-> <<28>>]
RawTVB == [id |-> 2, name |-> "s2", vote_average |-> 6, popularity |-> 1,
           genre_ids |-> <<35>>]

\* TMDbResponse<T>: the paginated envelope
TMDbResponse(results) ==
  [page |-> 1, results |-> results, total_pages |-> 1,
   total_results |-> Len(results)]

\* The four responses of one population round, in call order.  Movies: an
\* upstream with no results, and one whose calls overlap and disagree on an
\* item.  Series: one whose calls overlap.
MovieRounds ==
  { <<TMDbResponse(<<>>), TMDbResponse(<<>>), TMDbResponse(<<>>),
      TMDbResponse(<<>>)>>,
    <<TMDbResponse(<<RawMovieA>>), TMDbResponse(<<RawMovieB, RawMovieA2>>),
      TMDbResponse(<<RawMovieA2>>), TMDbResponse(<<>>)>> }

TVRounds ==
  { <<TMDbResponse(<<RawTVA>>), TMDbResponse(<<RawTVB>>),
      TMDbResponse(<<RawTVA>>), TMDbResponse(<<>>)>> }

\* length of the longest page of the catalog's rounds
MaxPageLen == 2

\* Orders in which the four responses of a round may arrive.
ArrivalOrders == {<<1, 2, 3, 4>>, <<4, 3, 2, 1>>, <<3, 1, 4, 2>>}

(***************************************************************************)
(* dataTransformers: a Movie has a title and a TVShow a name; the fields   *)
(* the engine never reads are left out of both                             *)
(***************************************************************************)
transformTMDbMovie(tmdbMovie) ==
  [id |-> tmdbMovie.id, title |-> tmdbMovie.title,
   vote_average |-> tmdbMovie.vote_average,
   popularity |-> tmdbMovie.popularity, genre_ids |-> tmdbMovie.genre_ids]

transformTMDbTVShow(tmdbTVShow) ==
  [id |-> tmdbTVShow.id, name |-> tmdbTVShow.name,
   vote_average |-> tmdbTVShow.vote_average,
   popularity |-> tmdbTVShow.popularity, genre_ids |-> tmdbTVShow.genre_ids]

\* transformTMDbResponse(response, transformer).results for either media type
TransformResults(response, media) ==
  [i \in 1..Len(response.results) |->
     IF media = "movies" THEN transformTMDbMovie(response.results[i])
                         ELSE transformTMDbTVShow(response.results[i])]

(***************************************************************************)
(* simpleRecommendations.ts: cache records and the population round        *)
(***************************************************************************)
EmptyCache == [movies |-> <<>>, tvShows |-> <<>>, lastUpdate |-> 0,
               userGenres |-> <<>>]

genresMatch(userGenres, cachedGenres) ==
  IF Len(userGenres) # Len(cachedGenres) THEN FALSE
  ELSE \A i \in 1..Len(userGenres) : Includes(cachedGenres, userGenres[i])

\* which of the two module-level caches a call uses
getCache(userGenres) ==
  IF Len(userGenres) = 0 THEN "general" ELSE "personalized"

\* await Promise.all(promises): the result array is in call order whatever
\* the order of arrival
PromiseAllInArrivalOrder(responses, arrival) ==
  [k \in 1..Len(responses) |-> responses[arrival[k]]]

PromiseAll(responses, arrival) == responses

\* responses.forEach(r => all.push(...transform(r).results))
RECURSIVE PushAll(_, _, _)
PushAll(responses, media, k) ==
  IF k > Len(responses) THEN <<>>
  ELSE TransformResults(responses[k], media) \o PushAll(responses, media, k + 1)

\* all.filter((x, index, self) => self.findIndex(y => y.id === x.id) === index)
RECURSIVE UniqueFrom(_, _)
UniqueFrom(all, index) ==
  IF index > Len(all) THEN <<>>
  ELSE (IF FindIndex(all, all[index].id) = index THEN <<all[index]>> ELSE <<>>)
       \o UniqueFrom(all, index + 1)

Unique(all) == UniqueFrom(all, 1)

\* the merged, de-duplicated pool of one successful round
MergeRound(responses, arrival, media) ==
  Unique(PushAll(PromiseAll(responses, arrival), media, 1))

(***************************************************************************)
(* simpleRecommendations.ts: scoring and category builders                 *)
(***************************************************************************)
\* scoreContent(item, userGenres) returns
\*   genreScore * 0.7 + ratingScore * 0.3, with
\*   genreScore = matching / max(len, 1) and ratingScore = vote_average / 10
\* (vote_average / 10 when userGenres is empty).  The model keeps it as the
\* integer 100 * max(len, 1) * score, which orders items the same way for a
\* fixed userGenres.
scoreContentRatingFirst(item, userGenres) ==
  LET itemGenres == item.genre_ids
      matching == Cardinality({i \in 1..Len(itemGenres) :
                                 Includes(userGenres, itemGenres[i])})
      len == IF Len(userGenres) > 1 THEN Len(userGenres) ELSE 1
  IN IF Len(userGenres) = 0 THEN 10 * item.vote_average
     ELSE 30 * matching + 7 * item.vote_average * len

scoreContent(item, userGenres) ==
  LET itemGenres == item.genre_ids
      matching == Cardinality({i \in 1..Len(itemGenres) :
                                 Includes(userGenres, itemGenres[i])})
      len == IF Len(userGenres) > 1 THEN Len(userGenres) ELSE 1
  IN IF Len(userGenres) = 0 THEN 10 * item.vote_average
     ELSE 70 * matching + 3 * item.vote_average * len

\* content after getPersonalizedContent ran on it: content.sort(...) is in
\* place when userGenres is empty, map/sort works on a copy otherwise
ContentAfterPersonalized(content, userGenres) ==
  IF Len(userGenres) = 0 THEN SortByRating(content) ELSE content

getPersonalizedContent(content, userGenres, limit) ==
  IF Len(userGenres) = 0 THEN Take(SortByRating(content), limit)
  ELSE Take(StableSortDesc(content,
              [i \in 1..Len(content) |-> scoreContent(content[i], userGenres)]),
            limit)

\* the array after the two in-place sorts of getFallbackCategories
SortedInPlace(all) == SortByRating(SortByPopularity(all))

\* the same with slice(0, 20) taken before the sort
getFallbackCategoriesSliceFirst(allMovies, allTVShows) ==
  << [id |-> "popular-movies", title |-> "Popular Movies",
      data |-> SortByPopularity(Take(allMovies, CategoryLimit))],
     [id |-> "top-rated-movies", title |-> "Top Rated Movies",
      data |-> SortByRating(Take(allMovies, CategoryLimit))],
     [id |-> "popular-tv", title |-> "Popular TV Shows",
      data |-> SortByPopularity(Take(allTVShows, CategoryLimit))],
     [id |-> "top-rated-tv", title |-> "Top Rated TV Shows",
      data |-> SortByRating(Take(allTVShows, CategoryLimit))] >>

getFallbackCategories(allMovies, allTVShows) ==
  << [id |-> "popular-movies", title |-> "Popular Movies",
      data |-> Take(SortByPopularity(allMovies), CategoryLimit)],
     [id |-> "top-rated-movies", title |-> "Top Rated Movies",
      data |-> Take(SortByRating(SortByPopularity(allMovies)), CategoryLimit)],
     [id |-> "popular-tv", title |-> "Popular TV Shows",
      data |-> Take(SortByPopularity(allTVShows), CategoryLimit)],
     [id |-> "top-rated-tv", title |-> "Top Rated TV Shows",
      data |-> Take(SortByRating(SortByPopularity(allTVShows)),
                    CategoryLimit)] >>

genreNames ==
  [g \in {28, 12, 16, 35} |->
     CASE g = 28 -> "Action" [] g = 12 -> "Adventure"
       [] g = 16 -> "Animation" [] g = 35 -> "Comedy"]

GenreName(genreId) ==
  IF genreId \in DOMAIN genreNames THEN genreNames[genreId]
  ELSE "Genre " \o ToString(genreId)

SelectByFirstGenre(content, genreId) ==
  SelectSeq(content, LAMBDA item : Len(item.genre_ids) > 0
                                   /\ item.genre_ids[1] = genreId)

SelectByGenre(content, genreId) ==
  SelectSeq(content, LAMBDA item : Includes(item.genre_ids, genreId))

\* topGenres.forEach(...): the Best categories, skipping empty ones
RECURSIVE GenreCategories(_, _, _)
GenreCategories(allContent, topGenres, k) ==
  IF k > Len(topGenres) THEN <<>>
  ELSE LET genreId == topGenres[k]
           genreContent ==
             Take(SortByRating(SelectByGenre(allContent, genreId)),
                  CategoryLimit)
       IN (IF Len(genreContent) > 0
             THEN << [id |-> "genre-" \o ToString(genreId),
                      title |-> "Best " \o GenreName(genreId),
                      data |-> genreContent] >>
             ELSE <<>>)
          \o GenreCategories(allContent, topGenres, k + 1)

\* the same with a Best category for every preferred genre
getPersonalizedCategoriesEveryGenre(allMovies, allTVShows, userGenres) ==
  LET allContent == allMovies \o allTVShows
      afterForYou == ContentAfterPersonalized(allContent, userGenres)
      trendingSorted == SortByPopularity(afterForYou)
  IN << [id |-> "for-you", title |-> "For You",
         data |-> getPersonalizedContent(allContent, userGenres,
                                         CategoryLimit)],
        [id |-> "trending", title |-> "Trending Now",
         data |-> Take(trendingSorted, CategoryLimit)] >>
     \o GenreCategories(trendingSorted, userGenres, 1)

getPersonalizedCategories(allMovies, allTVShows, userGenres) ==
  LET allContent == allMovies \o allTVShows
      afterForYou == ContentAfterPersonalized(allContent, userGenres)
      trendingSorted == SortByPopularity(afterForYou)
  IN << [id |-> "for-you", title |-> "For You",
         data |-> getPersonalizedContent(allContent, userGenres,
                                         CategoryLimit)],
        [id |-> "trending", title |-> "Trending Now",
         data |-> Take(trendingSorted, CategoryLimit)] >>
     \o GenreCategories(trendingSorted, Take(userGenres, TopGenreCount), 1)

(***************************************************************************)
(* storage.ts / genreStorage.ts: the persisted preference record           *)
(***************************************************************************)
defaultPreferences == [favoriteGenres |-> <<>>]

\* getStorageItem(USER_PREFERENCES, defaultPreferences): the stored record,
\* or the default when nothing is stored or AsyncStorage.getItem fails.
\* The storage slot is <<>> when the key is absent and <<record>> otherwise.
\* (JSON.parse(JSON.stringify(x)) is x for the lists of integers stored.)
getUserPreferences(stored, readOk) ==
  IF readOk /\ Len(stored) > 0 THEN stored[1] ELSE defaultPreferences

\* getGenrePreferences(): preferences.favoriteGenres || []
getGenrePreferences(stored, readOk) ==
  getUserPreferences(stored, readOk).favoriteGenres

\* hasUserPreferences(): preferences.length >= 3
hasUserPreferences(preferences) == Len(preferences) >= MinPreferences

\* preference lists a screen may save with setGenrePreferences
PrefChoices == { <<12, 28, 35>> }

\* genre ids a screen may add or remove one at a time
GenreIds == {35}

\* what the storage slot may hold when the app starts
InitialStorage == { <<>>, <<[favoriteGenres |-> <<28, 12, 16>>]>> }

(***************************************************************************)
(* EditProfileScreen.tsx (SearchScreen): strings, the cache key, the       *)
(* result pipeline                                                         *)
(***************************************************************************)
\* A string is the sequence of its characters, each a one-character string.
UpperCaseLetters ==
  <<"A", "B", "C", "D", "E", "F", "G", "H", "I", "J", "K", "L", "M",
    "N", "O", "P", "Q", "R", "S", "T", "U", "V", "W", "X", "Y", "Z">>

LowerCaseLetters ==
  <<"a", "b", "c", "d", "e", "f", "g", "h", "i", "j", "k", "l", "m",
    "n", "o", "p", "q", "r", "s", "t", "u", "v", "w", "x", "y", "z">>

DigitChars == <<"0", "1", "2", "3", "4", "5", "6", "7", "8", "9">>

WhiteSpace == {" "}

LowerChar(ch) ==
  IF \E i \in 1..Len(UpperCaseLetters) : UpperCaseLetters[i] = ch
    THEN LowerCaseLetters[CHOOSE i \in 1..Len(UpperCaseLetters) :
                            UpperCaseLetters[i] = ch]
    ELSE ch

\* String.prototype.toLowerCase()
toLowerCase(str) == [i \in 1..Len(str) |-> LowerChar(str[i])]

\* String.prototype.trim()
trim(str) ==
  LET kept == {i \in 1..Len(str) : str[i] \notin WhiteSpace}
  IN IF kept = {} THEN <<>>
     ELSE SubSeq(str, CHOOSE i \in kept : \A j \in kept : i <= j,
                      CHOOSE i \in kept : \A j \in kept : j <= i)

\* the decimal digits of a genre id, most significant first
RECURSIVE Digits(_)
Digits(n) == IF n < 10 THEN <<n>> ELSE Append(Digits(n \div 10), n % 10)

\* Number.prototype.toString()
NumberToString(n) == [i \in 1..Len(Digits(n)) |-> DigitChars[Digits(n)[i] + 1]]

\* a < b for two digit strings compared by UTF-16 code units
RECURSIVE CodeUnitLess(_, _)
CodeUnitLess(a, b) ==
  IF Len(b) = 0 THEN FALSE
  ELSE IF Len(a) = 0 THEN TRUE
  ELSE IF a[1] # b[1] THEN a[1] < b[1]
  ELSE CodeUnitLess(Tail(a), Tail(b))

\* insertion of x into a list already in Array.prototype.sort() order
RECURSIVE InsertSorted(_, _)
InsertSorted(sorted, x) ==
  IF Len(sorted) = 0 THEN <<x>>
  ELSE IF CodeUnitLess(Digits(x), Digits(sorted[1]))
    THEN <<x>> \o sorted
    ELSE <<sorted[1]>> \o InsertSorted(Tail(sorted), x)

\* Array.prototype.sort() without a comparator: the elements are compared as
\* strings, so 12 sorts before 9
RECURSIVE DefaultSort(_)
DefaultSort(list) ==
  IF Len(list) = 0 THEN <<>>
  ELSE InsertSorted(DefaultSort(SubSeq(list, 1, Len(list) - 1)),
                    list[Len(list)])

\* Array.prototype.join(',')
RECURSIVE Join(_)
Join(list) ==
  IF Len(list) = 0 THEN <<>>
  ELSE IF Len(list) = 1 THEN NumberToString(list[1])
  ELSE NumberToString(list[1]) \o <<",">> \o Join(Tail(list))

\* `${query.toLowerCase()}_${selectedGenreFilters.sort().join(',')}`
cacheKeyUnsorted(query, filters) ==
  toLowerCase(query) \o <<"_">> \o Join(filters)

cacheKey(query, filters) ==
  toLowerCase(query) \o <<"_">> \o Join(DefaultSort(filters))

SearchCacheLimit == 10
SearchResultLimit == 20
MinQueryLength == 3
ShortcutGenreCount == 3

\* items of a multi-search response: the media_type discriminates
MultiMovieA ==
  [id |-> 1, title |-> "m1", vote_average |-> 7, popularity |-> 2,
   genre_ids |-> <<28, 12>>, media_type |-> "movie"]

MultiTVA ==
  [id |-> 1, name |-> "s1", vote_average |-> 8, popularity |-> 3,
   genre_ids |-> <<35>>, media_type |-> "tv"]

MultiPerson ==
  [id |-> 3, name |-> "p1", popularity |-> 9, media_type |-> "person"]

\* searchMulti(query, 1) against the catalogue of a session: the response is
\* a function of the query, and some queries match nothing
SearchMatches == <<MultiMovieA, MultiPerson, MultiTVA>>

\* the SearchItem built from a movie or series of the response
SearchItem(item) ==
  IF item.media_type = "movie"
    THEN LET transformedMovie == transformTMDbMovie(item)
         IN [id |-> transformedMovie.id,
             title |-> transformedMovie.title,
             vote_average |-> transformedMovie.vote_average,
             popularity |-> transformedMovie.popularity,
             genre_ids |-> transformedMovie.genre_ids,
             media_type |-> "movie"]
    ELSE LET transformedTV == transformTMDbTVShow(item)
         IN [id |-> transformedTV.id,
             name |-> transformedTV.name,
             title |-> transformedTV.name,
             vote_average |-> transformedTV.vote_average,
             popularity |-> transformedTV.popularity,
             genre_ids |-> transformedTV.genre_ids,
             media_type |-> "tv"]

\* results.filter(movie or tv).map(transform).slice(0, 20)
SearchItems(response) ==
  LET kept == SelectSeq(response.results,
                LAMBDA item : item.media_type \in {"movie", "tv"})
  IN Take([i \in 1..Len(kept) |-> SearchItem(kept[i])], SearchResultLimit)

\* the same with the filter applied from the second selected genre on
FilterByGenresFromTwo(results, filters) ==
  IF Len(filters) > 1
    THEN SelectSeq(results,
           LAMBDA item : \E k \in 1..Len(item.genre_ids) :
                           Includes(filters, item.genre_ids[k]))
    ELSE results

\* the genre filter: kept when some genre id of the item is selected
FilterByGenres(results, filters) ==
  IF Len(filters) > 0
    THEN SelectSeq(results,
           LAMBDA item : \E k \in 1..Len(item.genre_ids) :
                           Includes(filters, item.genre_ids[k]))
    ELSE results

\* the same with the two weights of the score without preferences exchanged
RankResultsWeightsExchanged(results, preferences) ==
  IF Len(preferences) > 0
    THEN StableSortDesc(results,
           [i \in 1..Len(results) |-> scoreContent(results[i], preferences)])
    ELSE StableSortDesc(results,
           [i \in 1..Len(results) |->
              7 * results[i].popularity + 3 * results[i].vote_average])

\* the ranking: by scoreContent against the loaded preferences, or by
\* popularity * 0.3 + vote_average * 0.7 (tenfold here) without them
RankResults(results, preferences) ==
  IF Len(preferences) > 0
    THEN StableSortDesc(results,
           [i \in 1..Len(results) |-> scoreContent(results[i], preferences)])
    ELSE StableSortDesc(results,
           [i \in 1..Len(results) |->
              3 * results[i].popularity + 7 * results[i].vote_average])

\* the list performSearch stores and shows for a response
SearchResultsOf(response, filters, preferences) ==
  RankResults(FilterByGenres(SearchItems(response), filters), preferences)

\* Error messages, word by word; no needle of the catch block is a proper
\* part of a word of a message.
NotAvailableMessage ==
  <<"Movie", "database", "is", "not", "available.", "Please", "check",
    "your", "internet", "connection", "and", "try", "again.">>

\* tmdbFetch wraps what fetch or the status check threw
ServiceError(message) == <<"TMDb", "Service", "Error:">> \o message

\* fetch rejected: the device is offline
NetworkFailure == ServiceError(<<"Network", "request", "failed">>)

\* fetch rejected: the request timed out
TimeoutFailure == ServiceError(<<"Network", "request", "timed", "out">>)

\* status 429
RateLimitFailure ==
  ServiceError(<<"TMDb", "API", "Error:", "429", "-", ".", "Response:",
                 "Your", "request", "count", "is", "over", "the", "allowed",
                 "limit.">>)

\* status 500
ServerFailure ==
  ServiceError(<<"TMDb", "API", "Error:", "500", "-", ".", "Response:",
                 "Internal", "error.">>)

\* addToSearchHistory: throw new StorageError(...)
HistoryFailure == <<"Failed", "to", "add", "to", "search", "history">>

\* String.prototype.includes(needle), case-sensitive
includes(message, needle) ==
  \E i \in 0..(Len(message) - Len(needle)) :
     \A j \in 1..Len(needle) : message[i + j] = needle[j]

\* the catch block of performSearch: the title of the alert for a message
errorTitle(message) ==
  IF includes(message, <<"not", "configured">>) THEN "Service Unavailable"
  ELSE IF \/ includes(message, <<"network">>)
          \/ includes(message, <<"timeout">>) THEN "Connection Error"
  ELSE IF includes(message, <<"rate", "limit">>) THEN "Too Many Requests"
  ELSE "Search Error"

\* the queries a session types, in this order: "m01", "m02", ...
LongQuery(k) == <<"m", DigitChars[(k \div 10) + 1], DigitChars[(k % 10) + 1]>>

\* the first of them again, in capitals
CapitalQuery == <<"M", "0", "1">>

\* two characters between blanks, and a query of one blank
ShortQuery == <<" ", "m", "0", " ">>
BlankQuery == <<" ">>

\* the queries that match nothing in the catalogue
ZeroMatchQueries == {LongQuery(2)}

\* the response of searchMulti(query, 1)
searchMulti(query) ==
  TMDbResponse(IF toLowerCase(trim(query)) \in ZeroMatchQueries
                 THEN <<>> ELSE SearchMatches)

\* what a failed searchMulti may throw
UpstreamFailures ==
  {NetworkFailure, TimeoutFailure, RateLimitFailure, ServerFailure}

\* the genre chips of the filter row
FilterIds == {28}

(***************************************************************************)
(* State                                                                   *)
(***************************************************************************)
VARIABLES
  generalCache,       \* let generalCache: GenreCache
  personalizedCache,  \* let personalizedCache: GenreCache
  storage,            \* AsyncStorage item under USER_PREFERENCES
  now,                \* Date.now()
  callers,            \* the hook invocations in flight, one record per slot
  writer,             \* the preference write in flight
  hook,               \* useState values of useSimpleRecommendations
  ops,                \* loads and refreshes started so far
  writes,             \* preference writes started so far
  populated,          \* history: when each pool was last stored by a
                      \* successful round (0 if never) and for which genres
  screen,             \* useState values of SearchScreen
  searches,           \* the performSearch invocations in flight
  alerts,             \* the alerts raised and not yet answered
  configured,         \* tmdbService.isConfigured()
  used,               \* what the session has done so far
  observed,           \* history of the search screen
  pair,               \* two searches and their cache keys
  probe,              \* a read of the preference store and what it returned
  lastWrite           \* history of the preference store

engineVars == <<generalCache, personalizedCache, storage, now, callers,
                writer, hook, ops, writes, populated>>

screenVars == <<screen, searches, alerts, configured, used, observed>>

vars == <<engineVars, screenVars, pair, probe, lastWrite>>

\* the invocations of the hook's loadData / refresh, idle or in flight
Procs == DOMAIN callers

MediaTypes == {"movies", "tvShows"}

\* a call of getMoviesFromAPI / getTVShowsFromAPI made by a caller:
\*   pending   the four fetches are in flight
\*   calledAt  const now = Date.now() of the call
\*   ref/items the returned array: the cache's own array object ("cache"),
\*             a detached array ("own"), or nothing yet ("none")
\*   how       how the call returned: "hit", "success", "failure"
\*   outcome   "ok" when the call resolved, "error" when it rejected
\*   before    history: the array the entry held when the fetches were issued
\*   pages     history: the four responses of the round, in call order
NoCall == [pending |-> FALSE, calledAt |-> 0, items |-> <<>>, ref |-> "none",
           how |-> "none", outcome |-> "none", before |-> <<>>,
           pages |-> <<>>]

Idle ==
  [op |-> "none", pc |-> "idle", personalized |-> FALSE, userGenres |-> <<>>,
   readFailed |-> FALSE,
   pool |-> [media \in MediaTypes |-> NoCall],
   rfOk |-> FALSE]

WriterIdle == [pc |-> "idle", genreId |-> 0, genreIds |-> <<>>,
               current |-> defaultPreferences]

NeverPopulated == [at |-> 0, genres |-> <<>>]

NothingPopulated ==
  [name \in {"general", "personalized"} |->
     [media \in MediaTypes |-> NeverPopulated]]

\* the state of SearchScreen: its useState values
\*   hasHistory  searchHistory.length > 0
\*   focused     the focus effect has loaded the preferences
\* An entry of searchCache is a key with its results, in insertion order;
\* query, filters and hit are history: what the entry was stored for, and
\* whether a search was served from it.
InitialScreen ==
  [searchQuery |-> <<>>, searchResults |-> <<>>, hasHistory |-> FALSE,
   isSearching |-> FALSE, selectedGenreFilters |-> <<>>,
   userPreferences |-> <<>>, searchCache |-> <<>>, focused |-> FALSE]

SearchSlots == 1..NumSearches

\* an invocation of performSearch: its argument and what its closure holds
NoSearch ==
  [pc |-> "idle", query |-> <<>>, cacheKey |-> <<>>, filters |-> <<>>,
   preferences |-> <<>>, cache |-> <<>>]

NothingUsed == [asked |-> 0, extras |-> 0, failures |-> 0, toggles |-> 0]

\* history of the search screen:
\*   search    the last performSearch: whether its key was in searchCache
\*             when it was called, the upstream calls it issued, and whether
\*             it showed the stored list
\*   evicted   the entry the last eviction removed
NoEntry == [key |-> <<>>, results |-> <<>>, query |-> <<>>, filters |-> <<>>,
            hit |-> FALSE]

NothingObserved ==
  [search |-> [started |-> FALSE, present |-> FALSE, calls |-> 0,
               served |-> FALSE],
   evicted |-> NoEntry]

\* history of genreStorage.ts: the last write a screen observed
NoWrite ==
  [op |-> "none", genreId |-> 0, genreIds |-> <<>>, before |-> <<>>,
   result |-> "none", readFailed |-> FALSE]

NoPair == [queryA |-> <<>>, filtersA |-> <<>>, queryB |-> <<>>,
           filtersB |-> <<>>, keyA |-> <<>>, keyB |-> <<>>, done |-> FALSE]

\* no reader of the preference store has been called
NoProbe ==
  [fn |-> "none", readOk |-> TRUE, preferences |-> <<>>,
   contentGenreIds |-> <<>>, result |-> NULL]

EngineInit ==
  /\ generalCache = EmptyCache
  /\ personalizedCache = EmptyCache
  /\ storage \in InitialStorage
  /\ now = CACHE_DURATION
  /\ callers = [p \in 1..NumCallers |-> Idle]
  /\ writer = WriterIdle
  /\ hook = [categories |-> <<>>, error |-> NULL]
  /\ ops = 0
  /\ writes = 0
  /\ populated = NothingPopulated

ScreenInit ==
  /\ screen = InitialScreen
  /\ searches = [s \in SearchSlots |-> NoSearch]
  /\ alerts = <<>>
  /\ used = NothingUsed
  /\ observed = NothingObserved

Init ==
  /\ EngineInit
  /\ ScreenInit
  /\ configured = TRUE
  /\ pair = NoPair
  /\ probe = NoProbe
  /\ lastWrite = NoWrite

CacheOf(name) == IF name = "general" THEN generalCache ELSE personalizedCache

\* the array a caller holds: the cache's own array object, or a detached one
Held(c, media) ==
  IF c.pool[media].ref = "cache" THEN CacheOf(getCache(c.userGenres))[media]
  ELSE c.pool[media].items

\* cache.<media> = <new array>: callers still holding the old array object
\* keep it, detached from the cache
DetachOne(c, name, media) ==
  IF getCache(c.userGenres) = name /\ c.pool[media].ref = "cache"
    THEN [c EXCEPT !.pool[media].items = CacheOf(name)[media],
                   !.pool[media].ref = "own"]
    ELSE c

Detach(cs, name, media) == [q \in Procs |-> DetachOne(cs[q], name, media)]

DetachAll(cs) ==
  Detach(Detach(Detach(Detach(cs, "general", "movies"), "general", "tvShows"),
                "personalized", "movies"), "personalized", "tvShows")

\* no other operation is in flight; a new invocation takes the first slot
OthersIdle(p) ==
  /\ \A q \in Procs \ {p} : callers[q].pc = "idle"
  /\ \A q \in Procs : p <= q
  /\ writer.pc = "idle"

\* the freshness test of getMoviesFromAPI / getTVShowsFromAPI
IsFresh(cache, media, t) ==
  Len(cache[media]) > 0 /\ t - cache.lastUpdate < CACHE_DURATION

\* catch (error) { return cache.<media>; }
CatchResultRethrow(pool) == [outcome |-> "error", pool |-> <<>>]

CatchResult(pool) == [outcome |-> "ok", pool |-> pool]

Rounds(media) == IF media = "movies" THEN MovieRounds ELSE TVRounds

SetCache(name, value) ==
  /\ generalCache' = IF name = "general" THEN value ELSE generalCache
  /\ personalizedCache' =
       IF name = "personalized" THEN value ELSE personalizedCache

PcCall(media) == IF media = "movies" THEN "movies_call" ELSE "tv_call"
PcWait(media) == IF media = "movies" THEN "movies_wait" ELSE "tv_wait"
PcAfter(media) == IF media = "movies" THEN "tv_call" ELSE "build"

(***************************************************************************)
(* Clock                                                                   *)
(***************************************************************************)
\* Date.now() moves on between operations, TickMs at a time; the duration of
\* one operation is below that resolution.
Tick ==
  /\ now < CACHE_DURATION + MaxTicks * TickMs
  /\ \A q \in Procs : callers[q].pc = "idle"
  /\ writer.pc = "idle"
  /\ now' = now + TickMs
  /\ UNCHANGED <<generalCache, personalizedCache, storage, callers, writer,
                 hook, ops, writes, populated,
                 screenVars, pair, probe, lastWrite>>

(***************************************************************************)
(* getMoviesFromAPI / getTVShowsFromAPI, called from the category builders *)
(***************************************************************************)
\* the call up to its first await: const now = Date.now(); the cache check;
\* on a miss the four fetches are issued
StartCall(c, media, t) ==
  IF IsFresh(CacheOf(getCache(c.userGenres)), media, t)
    THEN [NoCall EXCEPT !.calledAt = t, !.ref = "cache", !.how = "hit",
                        !.outcome = "ok"]
    ELSE [NoCall EXCEPT !.pending = TRUE, !.calledAt = t,
                        !.before = CacheOf(getCache(c.userGenres))[media]]

PoolCall(p, media) ==
  LET c == callers[p]
      call == StartCall(c, media, now)
  IN /\ c.pc = PcCall(media)
     /\ callers' = [callers EXCEPT ![p] =
          [c EXCEPT !.pc = IF call.pending THEN PcWait(media)
                           ELSE PcAfter(media),
                    !.pool[media] = call]]
     /\ UNCHANGED <<generalCache, personalizedCache, storage, now, writer,
                    hook, ops, writes, populated,
                    screenVars, pair, probe, lastWrite>>

\* all four responses arrived: merge, de-duplicate, store, return
PoolSuccess(p, media) ==
  LET c == callers[p]
      name == getCache(c.userGenres)
      cache == CacheOf(name)
  IN /\ c.pool[media].pending
     /\ \E responses \in Rounds(media), arrival \in ArrivalOrders :
          LET unique == MergeRound(responses, arrival, media)
          IN /\ SetCache(name, [cache EXCEPT
                                  ![media] = unique,
                                  !.lastUpdate = c.pool[media].calledAt,
                                  !.userGenres = c.userGenres])
             /\ callers' = [Detach(callers, name, media) EXCEPT ![p] =
                  [c EXCEPT
                     !.pc = IF c.pc = PcWait(media) THEN PcAfter(media)
                            ELSE c.pc,
                     !.pool[media] =
                        [NoCall EXCEPT !.ref = "cache", !.how = "success",
                                       !.outcome = "ok",
                                       !.pages = responses]]]
             /\ populated' = [populated EXCEPT ![name][media] =
                                [at |-> now, genres |-> c.userGenres]]
     /\ UNCHANGED <<storage, now, writer, hook, ops, writes,
                    screenVars, pair, probe, lastWrite>>

\* one of the four fetches rejected: catch (error) { return cache.<media>; }
PoolFailure(p, media) ==
  LET c == callers[p]
      result == CatchResult(CacheOf(getCache(c.userGenres))[media])
  IN /\ c.pool[media].pending
     /\ callers' = [callers EXCEPT ![p] =
          [c EXCEPT
             !.pc = IF c.pc = PcWait(media) THEN PcAfter(media) ELSE c.pc,
             !.pool[media] =
                IF result.outcome = "ok"
                  THEN [NoCall EXCEPT !.ref = "cache", !.how = "failure",
                                      !.outcome = "ok",
                                      !.before = c.pool[media].before]
                  ELSE [NoCall EXCEPT !.ref = "own", !.items = result.pool,
                                      !.how = "failure",
                                      !.outcome = result.outcome,
                                      !.before = c.pool[media].before]]]
     /\ UNCHANGED <<generalCache, personalizedCache, storage, now, writer,
                    hook, ops, writes, populated,
                    screenVars, pair, probe, lastWrite>>

getMoviesFromAPI_Call(p) == PoolCall(p, "movies")
getMoviesFromAPI_Success(p) == PoolSuccess(p, "movies")
getMoviesFromAPI_Failure(p) == PoolFailure(p, "movies")
getTVShowsFromAPI_Call(p) == PoolCall(p, "tvShows")
getTVShowsFromAPI_Success(p) == PoolSuccess(p, "tvShows")
getTVShowsFromAPI_Failure(p) == PoolFailure(p, "tvShows")

(***************************************************************************)
(* useSimpleRecommendations: loadData / reload, and getSimpleRecommendations*)
(***************************************************************************)
\* loadData(): setError(null); hasUserPreferences() of the hook is awaited
\* (its value only feeds the hasPreferences display flag), then
\* getSimpleRecommendations() is called and issues its own preference read
LoadBegin(p) ==
  /\ callers[p].pc = "idle"
  /\ ops < MaxOps
  /\ ops' = ops + 1
  /\ callers' = [q \in Procs |->
       IF q = p THEN [Idle EXCEPT !.op = "load", !.pc = "rec_has"]
       ELSE [callers[q] EXCEPT !.rfOk = FALSE]]
  /\ hook' = [hook EXCEPT !.error = NULL]
  /\ UNCHANGED <<generalCache, personalizedCache, storage, now, writer,
                 writes, populated,
                 screenVars, pair, probe, lastWrite>>

\* a load started while nothing else is in flight
LoadStart(p) == OthersIdle(p) /\ LoadBegin(p)

\* getSimpleRecommendations: userHasPrefs = await hasUserPreferences()
RecHasRead(p) ==
  /\ callers[p].pc = "rec_has"
  /\ \E readOk \in BOOLEAN :
       LET userHasPrefs ==
             hasUserPreferences(getGenrePreferences(storage, readOk))
       IN callers' = [callers EXCEPT ![p] =
            [@ EXCEPT !.pc = IF userHasPrefs THEN "rec_prefs"
                             ELSE "movies_call",
                      !.personalized = userHasPrefs,
                      !.userGenres = <<>>,
                      !.readFailed = @ \/ ~readOk]]
  /\ UNCHANGED <<generalCache, personalizedCache, storage, now, writer, hook,
                 ops, writes, populated,
                 screenVars, pair, probe, lastWrite>>

\* getSimpleRecommendations: userGenres = await getGenrePreferences()
RecPrefsRead(p) ==
  /\ callers[p].pc = "rec_prefs"
  /\ \E readOk \in BOOLEAN :
       callers' = [callers EXCEPT ![p] =
         [@ EXCEPT !.pc = "movies_call",
                   !.userGenres = getGenrePreferences(storage, readOk),
                   !.readFailed = @ \/ ~readOk]]
  /\ UNCHANGED <<generalCache, personalizedCache, storage, now, writer, hook,
                 ops, writes, populated,
                 screenVars, pair, probe, lastWrite>>

\* the categories returned by getSimpleRecommendations for a caller whose two
\* pool calls have returned
CategoriesFor(c) ==
  IF c.personalized
    THEN getPersonalizedCategories(Held(c, "movies"), Held(c, "tvShows"),
                                   c.userGenres)
    ELSE getFallbackCategories(Held(c, "movies"), Held(c, "tvShows"))

\* The hook state keeps the identity keys of the categories it was given.
CategoryIds(categories) ==
  [k \in 1..Len(categories) |-> categories[k].id]

\* getFallbackCategories sorts allMovies and allTVShows in place: when the
\* array is the cache's own array object the cache is reordered with it
CacheAfterBuild(c, name) ==
  LET cache == CacheOf(name)
      mine == ~c.personalized /\ getCache(c.userGenres) = name
  IN [cache EXCEPT
        !.movies = IF mine /\ c.pool["movies"].ref = "cache"
                     THEN SortedInPlace(@) ELSE @,
        !.tvShows = IF mine /\ c.pool["tvShows"].ref = "cache"
                      THEN SortedInPlace(@) ELSE @]

\* both pools are in: build the categories, return them to the hook:
\* setCategories(recs).  A pool call that rejected is caught by
\* getSimpleRecommendations, which then returns getFallbackCategories().
Build(p) ==
  LET c == callers[p]
  IN /\ c.pc = "build"
     /\ generalCache' = CacheAfterBuild(c, "general")
     /\ personalizedCache' = CacheAfterBuild(c, "personalized")
     /\ hook' = [hook EXCEPT !.categories = CategoryIds(CategoriesFor(c))]
     /\ callers' = [callers EXCEPT ![p] = Idle]
     /\ UNCHANGED <<storage, now, writer, ops, writes, populated,
                    screenVars, pair, probe, lastWrite>>

(***************************************************************************)
(* refresh of the hook and refreshSimpleRecommendations                    *)
(***************************************************************************)
\* refresh(): setError(null); refreshSimpleRecommendations() runs up to its
\* first await: both caches are reset and the preference read is issued
RefreshBegin(p) ==
  /\ callers[p].pc = "idle"
  /\ ops < MaxOps
  /\ ops' = ops + 1
  /\ generalCache' = EmptyCache
  /\ personalizedCache' = EmptyCache
  /\ populated' = NothingPopulated
  /\ callers' = [q \in Procs |->
       IF q = p THEN [Idle EXCEPT !.op = "refresh", !.pc = "rf_has"]
       ELSE [DetachAll(callers)[q] EXCEPT !.rfOk = FALSE]]
  /\ hook' = [hook EXCEPT !.error = NULL]
  /\ UNCHANGED <<storage, now, writer, writes,
                 screenVars, pair, probe, lastWrite>>

\* a refresh started while nothing else is in flight
RefreshStart(p) == OthersIdle(p) /\ RefreshBegin(p)

\* refreshSimpleRecommendations: userHasPrefs = await hasUserPreferences()
RefreshHasRead(p) ==
  /\ callers[p].pc = "rf_has"
  /\ \E readOk \in BOOLEAN :
       LET userHasPrefs ==
             hasUserPreferences(getGenrePreferences(storage, readOk))
       IN callers' = [callers EXCEPT ![p] =
            [@ EXCEPT !.pc = IF userHasPrefs THEN "rf_prefs" ELSE "rf_call",
                      !.userGenres = <<>>,
                      !.readFailed = ~readOk]]
  /\ UNCHANGED <<generalCache, personalizedCache, storage, now, writer, hook,
                 ops, writes, populated,
                 screenVars, pair, probe, lastWrite>>

\* refreshSimpleRecommendations: userGenres = await getGenrePreferences()
RefreshPrefsRead(p) ==
  /\ callers[p].pc = "rf_prefs"
  /\ \E readOk \in BOOLEAN :
       callers' = [callers EXCEPT ![p] =
         [@ EXCEPT !.pc = "rf_call",
                   !.userGenres = getGenrePreferences(storage, readOk),
                   !.readFailed = @ \/ ~readOk]]
  /\ UNCHANGED <<generalCache, personalizedCache, storage, now, writer, hook,
                 ops, writes, populated,
                 screenVars, pair, probe, lastWrite>>

\* Promise.all([getMoviesFromAPI(g), getTVShowsFromAPI(g)]): both calls are
\* made in the same turn of the event loop
RefreshCall(p) ==
  LET c == callers[p]
  IN /\ c.pc = "rf_call"
     /\ callers' = [callers EXCEPT ![p] =
          [c EXCEPT !.pc = "rf_wait",
                    !.pool = [media \in MediaTypes |->
                                StartCall(c, media, now)]]]
     /\ UNCHANGED <<generalCache, personalizedCache, storage, now, writer,
                    hook, ops, writes, populated,
                    screenVars, pair, probe, lastWrite>>

\* Promise.all resolved: refreshSimpleRecommendations returns and the hook
\* goes on as loadData does (hasUserPreferences, getSimpleRecommendations)
RefreshReturn(p) ==
  LET c == callers[p]
  IN /\ c.pc = "rf_wait"
     /\ ~c.pool["movies"].pending
     /\ ~c.pool["tvShows"].pending
     /\ callers' = [callers EXCEPT ![p] =
          [Idle EXCEPT !.op = "refresh", !.pc = "rec_has",
                       !.userGenres = c.userGenres,
                       !.readFailed = c.readFailed,
                       !.rfOk = /\ c.pool["movies"].how = "success"
                                /\ c.pool["tvShows"].how = "success"]]
     /\ UNCHANGED <<generalCache, personalizedCache, storage, now, writer,
                    hook, ops, writes, populated,
                    screenVars, pair, probe, lastWrite>>

(***************************************************************************)
(* genreStorage.ts: setGenrePreferences / addGenrePreference /             *)
(* removeGenrePreference over storage.ts updateUserPreferences             *)
(***************************************************************************)
WriterBegin(pc, genreId, genreIds) ==
  /\ writer.pc = "idle"
  /\ writes < MaxWrites
  /\ writes' = writes + 1
  /\ writer' = [WriterIdle EXCEPT !.pc = pc, !.genreId = genreId,
                                  !.genreIds = genreIds]
  /\ callers' = [q \in Procs |-> [callers[q] EXCEPT !.rfOk = FALSE]]
  /\ UNCHANGED <<generalCache, personalizedCache, storage, now, hook, ops,
                 populated,
                 screenVars, pair, probe, lastWrite>>

\* a write started while no hook invocation is in flight
WriterStart(pc, genreId, genreIds) ==
  /\ \A q \in Procs : callers[q].pc = "idle"
  /\ WriterBegin(pc, genreId, genreIds)

\* setGenrePreferences(genreIds): updateUserPreferences issues its read
SetStart == \E genreIds \in PrefChoices : WriterStart("upd_read", 0, genreIds)

\* addGenrePreference(genreId): getGenrePreferences() issued
AddStart == \E genreId \in GenreIds : WriterStart("add_read", genreId, <<>>)

\* removeGenrePreference(genreId): getGenrePreferences() issued
RemoveStart ==
  \E genreId \in GenreIds : WriterStart("remove_read", genreId, <<>>)

\* the history is kept for the writes a settings session started
Log(record) == IF lastWrite.result = "pending" THEN record ELSE lastWrite

WriterStep(next, log) ==
  /\ writer' = next
  /\ lastWrite' = Log(log)
  /\ UNCHANGED <<generalCache, personalizedCache, storage, now, callers, hook,
                 ops, writes, populated,
                 screenVars, pair, probe>>

\* addGenrePreference: currentGenres read; append when absent, then
\* setGenrePreferences(updatedGenres); return true when already present
AddRead ==
  /\ writer.pc = "add_read"
  /\ \E readOk \in BOOLEAN :
       LET currentGenres == getGenrePreferences(storage, readOk)
       IN WriterStep(
            IF ~Includes(currentGenres, writer.genreId)
              THEN [writer EXCEPT
                      !.pc = "upd_read",
                      !.genreIds = Append(currentGenres, writer.genreId)]
              ELSE WriterIdle,
            IF ~Includes(currentGenres, writer.genreId)
              THEN [lastWrite EXCEPT !.readFailed = ~readOk]
              ELSE [lastWrite EXCEPT !.readFailed = ~readOk,
                                     !.result = "true"])

\* removeGenrePreference: currentGenres.filter(id => id !== genreId), then
\* setGenrePreferences(updatedGenres)
RemoveRead ==
  /\ writer.pc = "remove_read"
  /\ \E readOk \in BOOLEAN :
       LET currentGenres == getGenrePreferences(storage, readOk)
       IN WriterStep(
            [writer EXCEPT
               !.pc = "upd_read",
               !.genreIds = SelectSeq(currentGenres,
                              LAMBDA id : id # writer.genreId)],
            [lastWrite EXCEPT !.readFailed = ~readOk])

\* updateUserPreferences: currentPreferences = await getUserPreferences()
UpdateRead ==
  /\ writer.pc = "upd_read"
  /\ \E readOk \in BOOLEAN :
       WriterStep([writer EXCEPT
                     !.pc = "upd_write",
                     !.current = getUserPreferences(storage, readOk)],
                  lastWrite)

UpdatedPreferencesMerged(current, genreIds) ==
  [current EXCEPT !.favoriteGenres = @ \o genreIds]

\* {...currentPreferences, ...preferences} of updateUserPreferences
UpdatedPreferences(current, genreIds) ==
  [current EXCEPT !.favoriteGenres = genreIds]

\* updateUserPreferences: setStorageItem({...current, ...preferences});
\* setGenrePreferences returns true, or false when the write threw
UpdateWrite ==
  /\ writer.pc = "upd_write"
  /\ \E writeOk \in BOOLEAN :
       /\ storage' = IF writeOk
                       THEN << UpdatedPreferences(writer.current,
                                                  writer.genreIds) >>
                       ELSE storage
       /\ writer' = WriterIdle
       /\ lastWrite' = Log([lastWrite EXCEPT
                              !.result = IF writeOk THEN "true" ELSE "false"])
  /\ UNCHANGED <<generalCache, personalizedCache, now, callers, hook, ops,
                 writes, populated,
                 screenVars, pair, probe>>

(***************************************************************************)
(* SearchScreen: the Map behind searchCache                                *)
(***************************************************************************)
\* the place of a key in the Map, 0 when the Map does not have it
KeyIndex(cache, key) ==
  IF \E i \in 1..Len(cache) : cache[i].key = key
    THEN CHOOSE i \in 1..Len(cache) : cache[i].key = key
    ELSE 0

\* newCache.set(cacheKey, results): a key the Map has keeps its place
MapSet(prev, entry) ==
  LET i == KeyIndex(prev, entry.key)
  IN IF i > 0 THEN [prev EXCEPT ![i].results = entry.results]
     ELSE Append(prev, entry)

\* newCache.delete(key)
MapDelete(cache, key) == SelectSeq(cache, LAMBDA e : e.key # key)

ExceedsLimitByTwo(newCache) == Len(newCache) > SearchCacheLimit + 1

\* newCache.size > 10
ExceedsLimit(newCache) == Len(newCache) > SearchCacheLimit

LeastRecentKey(newCache) ==
  IF \E i \in 1..Len(newCache) : ~newCache[i].hit
    THEN newCache[CHOOSE i \in 1..Len(newCache) :
                    /\ ~newCache[i].hit
                    /\ \A j \in 1..(i - 1) : newCache[j].hit].key
    ELSE newCache[1].key

\* newCache.keys().next().value
FirstKey(newCache) == newCache[1].key

\* the updater given to setSearchCache
UpdatedCache(prev, entry) ==
  LET newCache == MapSet(prev, entry)
  IN IF ExceedsLimit(newCache) /\ Len(FirstKey(newCache)) > 0
       THEN MapDelete(newCache, FirstKey(newCache))
       ELSE newCache

\* the entry the updater removed, NoEntry when it removed none
Removed(prev, entry) ==
  LET newCache == MapSet(prev, entry)
      gone == {i \in 1..Len(newCache) :
                 KeyIndex(UpdatedCache(prev, entry), newCache[i].key) = 0}
  IN IF gone = {} THEN NoEntry ELSE newCache[CHOOSE i \in gone : TRUE]

\* history: a search was served from the entry under the key
MarkHit(cache, key) ==
  [i \in 1..Len(cache) |->
     IF cache[i].key = key THEN [cache[i] EXCEPT !.hit = TRUE] ELSE cache[i]]

(***************************************************************************)
(* SearchScreen: performSearch                                             *)
(***************************************************************************)
\* setShowHistory of the effect on searchQuery
showHistory == Len(trim(screen.searchQuery)) = 0

\* what threw the message: history for the alerts
KindOf(message) ==
  CASE message = NotAvailableMessage -> "not_configured"
    [] message = NetworkFailure -> "network"
    [] message = TimeoutFailure -> "timeout"
    [] message = RateLimitFailure -> "rate_limit"
    [] message = ServerFailure -> "server"
    [] OTHER -> "storage"

\* Alert.alert(errorTitle, errorMessage, [OK, Retry]); Retry calls the
\* performSearch of the render the failed search was started from
SearchAlert(message, r) ==
  [title |-> errorTitle(message), kind |-> KindOf(message), retry |-> TRUE,
   query |-> r.query, filters |-> r.filters, preferences |-> r.preferences,
   cache |-> r.cache]

\* Alert.alert('Search Query Too Short', ..., [OK])
TooShortAlert ==
  [title |-> "Search Query Too Short", kind |-> "short", retry |-> FALSE,
   query |-> <<>>, filters |-> <<>>, preferences |-> <<>>, cache |-> <<>>]

\* the values of the render a handler belongs to
Closure ==
  [cache |-> screen.searchCache, filters |-> screen.selectedGenreFilters,
   preferences |-> screen.userPreferences]

\* a new invocation takes the first free slot
FreeSlot ==
  CHOOSE s \in SearchSlots :
    /\ searches[s].pc = "idle"
    /\ \A t \in SearchSlots : searches[t].pc = "idle" => s <= t

\* performSearch(query) up to its first await, called with the values of
\* `closure`; `base` and `baseAlerts` are the screen and the alerts as the
\* calling handler leaves them.  The key is looked up in the Map of the
\* closure; a hit shows the stored list, a miss calls searchMulti unless the
\* client is not configured, which throws into the catch block.
PerformSearch(query, closure, base, baseAlerts, nextUsed) ==
  LET key == cacheKey(query, closure.filters)
      index == KeyIndex(closure.cache, key)
      long == Len(trim(query)) >= MinQueryLength
      r == [pc |-> "wait", query |-> query, cacheKey |-> key,
            filters |-> DefaultSort(closure.filters),
            preferences |-> closure.preferences, cache |-> closure.cache]
      held == KeyIndex(base.searchCache, key)
      seen(calls, shown) ==
        [started |-> TRUE, present |-> held > 0, calls |-> calls,
         served |-> held > 0 /\ shown = base.searchCache[held].results]
  IN /\ \E s \in SearchSlots : searches[s].pc = "idle"
     /\ used' = nextUsed
     /\ IF index > 0
          THEN /\ screen' = [base EXCEPT
                     !.searchResults = closure.cache[index].results,
                     !.isSearching = long,
                     !.searchCache = MarkHit(@, key)]
               /\ searches' =
                    IF long
                      THEN [searches EXCEPT
                              ![FreeSlot] = [r EXCEPT !.pc = "history"]]
                      ELSE searches
               /\ alerts' = baseAlerts
               /\ observed' = [observed EXCEPT !.search =
                    seen(0, closure.cache[index].results)]
          ELSE IF ~configured
          THEN /\ screen' = [base EXCEPT !.searchResults = <<>>,
                                         !.isSearching = FALSE]
               /\ searches' = searches
               /\ alerts' = Append(baseAlerts,
                                   SearchAlert(NotAvailableMessage, r))
               /\ observed' = [observed EXCEPT !.search = seen(0, <<>>)]
          ELSE /\ screen' = [base EXCEPT !.searchResults = <<>>,
                                         !.isSearching = TRUE]
               /\ searches' = [searches EXCEPT ![FreeSlot] = r]
               /\ alerts' = baseAlerts
               /\ observed' = [observed EXCEPT !.search = seen(1, <<>>)]

\* searchMulti answered: the results are built from the response and the
\* filters and preferences of the closure, stored by the updater, shown;
\* the history write follows for a query of three characters or more
SearchSuccess(s) ==
  LET r == searches[s]
      results == SearchResultsOf(searchMulti(r.query), r.filters,
                                 r.preferences)
      entry == [key |-> r.cacheKey, results |-> results, query |-> r.query,
                filters |-> r.filters, hit |-> FALSE]
      long == Len(trim(r.query)) >= MinQueryLength
      removed == Removed(screen.searchCache, entry)
  IN /\ r.pc = "wait"
     /\ screen' = [screen EXCEPT
                     !.searchCache = UpdatedCache(@, entry),
                     !.searchResults = results,
                     !.isSearching = IF long THEN @ ELSE FALSE]
     /\ searches' = [searches EXCEPT
                       ![s] = IF long THEN [r EXCEPT !.pc = "history"]
                              ELSE NoSearch]
     /\ observed' = [observed EXCEPT
                       !.evicted = IF removed = NoEntry THEN @ ELSE removed]
     /\ UNCHANGED <<engineVars, alerts, configured, used, pair, probe, lastWrite>>

CacheWithEmptyList(prev, r) ==
  UpdatedCache(prev, [key |-> r.cacheKey, results |-> <<>>,
                      query |-> r.query, filters |-> r.filters,
                      hit |-> FALSE])

\* the catch block of performSearch does not call setSearchCache
CacheAfterFailure(prev, r) == prev

\* searchMulti threw: the catch block raises the alert, finally
\* setIsSearching(false)
SearchFailure(s) ==
  LET r == searches[s]
  IN /\ r.pc = "wait"
     /\ used.failures < MaxFailures
     /\ \E message \in UpstreamFailures :
          alerts' = Append(alerts, SearchAlert(message, r))
     /\ screen' = [screen EXCEPT
                     !.isSearching = FALSE,
                     !.searchCache = CacheAfterFailure(@, r)]
     /\ searches' = [searches EXCEPT ![s] = NoSearch]
     /\ used' = [used EXCEPT !.failures = @ + 1]
     /\ UNCHANGED <<engineVars, configured, observed, pair, probe, lastWrite>>

\* await addToSearchHistory(query.trim()); await loadSearchHistory(); the
\* write may throw into the catch block
HistoryWritten(s) ==
  LET r == searches[s]
  IN /\ r.pc = "history"
     /\ screen' = [screen EXCEPT !.hasHistory = TRUE, !.isSearching = FALSE]
     /\ searches' = [searches EXCEPT ![s] = NoSearch]
     /\ UNCHANGED <<engineVars, alerts, configured, used, observed, pair, probe,
                    lastWrite>>

HistoryFailed(s) ==
  LET r == searches[s]
  IN /\ r.pc = "history"
     /\ used.failures < MaxFailures
     /\ alerts' = Append(alerts, SearchAlert(HistoryFailure, r))
     /\ screen' = [screen EXCEPT !.isSearching = FALSE]
     /\ searches' = [searches EXCEPT ![s] = NoSearch]
     /\ used' = [used EXCEPT !.failures = @ + 1]
     /\ UNCHANGED <<engineVars, configured, observed, pair, probe, lastWrite>>

(***************************************************************************)
(* SearchScreen: the handlers                                              *)
(***************************************************************************)
\* useFocusEffect: loadUserPreferences()
Focus ==
  /\ ~screen.focused
  /\ \E readOk \in BOOLEAN :
       screen' = [screen EXCEPT
                    !.focused = TRUE,
                    !.userPreferences = getGenrePreferences(storage, readOk)]
  /\ UNCHANGED <<engineVars, searches, alerts, configured, used, observed,
                 pair, probe, lastWrite>>

\* the handlers run once the screen is focused and no alert is up
Ready == screen.focused /\ alerts = <<>>

\* what the session may type next: its next new query; before its first
\* search a query too short to search or a blank; once the cache is full
\* the first query again, in capitals
Typable(limit) ==
  (IF used.asked < limit THEN {LongQuery(used.asked + 1)} ELSE {})
    \cup (IF used.asked = 0 THEN {ShortQuery, BlankQuery} ELSE {})
    \cup (IF Len(screen.searchCache) = SearchCacheLimit
          THEN {CapitalQuery} ELSE {})

\* the session types between its searches
Quiet == \A s \in SearchSlots : searches[s].pc = "idle"

\* onChangeText: setSearchQuery(text), and the effect on searchQuery
ChangeText(limit) ==
  /\ Ready
  /\ Quiet
  /\ \E text \in Typable(limit) :
       /\ text # screen.searchQuery
       /\ screen' =
            IF Len(trim(text)) = 0
              THEN [screen EXCEPT !.searchQuery = text,
                                  !.searchResults = <<>>,
                                  !.isSearching = FALSE]
              ELSE [screen EXCEPT !.searchQuery = text]
  /\ UNCHANGED <<engineVars, searches, alerts, configured, used, observed,
                 pair, probe, lastWrite>>

\* handleSearchSubmit, from the keyboard or the search button
handleSearchSubmit(limit, extraLimit) ==
  LET trimmedQuery == trim(screen.searchQuery)
      fresh == used.asked < limit
                 /\ trimmedQuery = LongQuery(used.asked + 1)
  IN /\ Ready
     /\ Len(trimmedQuery) >= MinQueryLength
     /\ fresh \/ used.extras < extraLimit
     /\ PerformSearch(trimmedQuery, Closure,
                      [screen EXCEPT
                         !.selectedGenreFilters = DefaultSort(@)],
                      alerts,
                      IF fresh THEN [used EXCEPT !.asked = @ + 1]
                      ELSE [used EXCEPT !.extras = @ + 1])
     /\ UNCHANGED <<engineVars, configured, pair, probe, lastWrite>>

\* handleSearchSubmit with one or two characters
SubmitTooShort ==
  LET trimmedQuery == trim(screen.searchQuery)
  IN /\ Ready
     /\ Len(trimmedQuery) > 0
     /\ Len(trimmedQuery) < MinQueryLength
     /\ alerts' = <<TooShortAlert>>
     /\ UNCHANGED <<engineVars, screen, searches, configured, used, observed,
                    pair, probe, lastWrite>>

\* "Try Your Favorite Genres" of the no-results state, which is rendered
\* for a query of blanks only while the history is shown and empty:
\* setSelectedGenreFilters(userPreferences.slice(0, 3)) and, from a timer,
\* performSearch(searchQuery) of the same render
TryFavoriteGenres ==
  /\ Ready
  /\ Len(screen.searchQuery) > 0
  /\ showHistory
  /\ ~screen.hasHistory
  /\ ~screen.isSearching
  /\ Len(screen.searchResults) = 0
  /\ Len(screen.userPreferences) >= ShortcutGenreCount
  /\ Len(screen.selectedGenreFilters) = 0
  /\ used.extras < MaxExtraSearches
  /\ PerformSearch(screen.searchQuery, Closure,
                   [screen EXCEPT
                      !.selectedGenreFilters =
                         Take(screen.userPreferences, ShortcutGenreCount)],
                   alerts, [used EXCEPT !.extras = @ + 1])
  /\ UNCHANGED <<engineVars, configured, pair, probe, lastWrite>>

\* handleToggleGenreFilter(genreId): the filter changes, the cache is reset
handleToggleGenreFilter ==
  /\ Ready
  /\ used.toggles < MaxToggles
  /\ \E genreId \in FilterIds :
       screen' = [screen EXCEPT
                    !.selectedGenreFilters =
                       IF Includes(@, genreId)
                         THEN SelectSeq(@, LAMBDA id : id # genreId)
                         ELSE Append(@, genreId),
                    !.searchCache = <<>>]
  /\ used' = [used EXCEPT !.toggles = @ + 1]
  /\ UNCHANGED <<engineVars, searches, alerts, configured, observed, pair, probe,
                 lastWrite>>

\* handleClearGenreFilters
handleClearGenreFilters ==
  /\ Ready
  /\ used.toggles < MaxToggles
  /\ Len(screen.selectedGenreFilters) > 0
  /\ screen' = [screen EXCEPT !.selectedGenreFilters = <<>>,
                              !.searchCache = <<>>]
  /\ used' = [used EXCEPT !.toggles = @ + 1]
  /\ UNCHANGED <<engineVars, searches, alerts, configured, observed, pair, probe,
                 lastWrite>>

\* OK of the alert on top
AlertOk ==
  /\ Len(alerts) > 0
  /\ alerts' = Tail(alerts)
  /\ UNCHANGED <<engineVars, screen, searches, configured, used, observed,
                 pair, probe, lastWrite>>

\* Retry of the alert on top: performSearch(query) of the failed search
AlertRetry ==
  /\ Len(alerts) > 0
  /\ alerts[1].retry
  /\ used.extras < MaxExtraSearches
  /\ PerformSearch(alerts[1].query,
                   [cache |-> alerts[1].cache, filters |-> alerts[1].filters,
                    preferences |-> alerts[1].preferences],
                   screen, Tail(alerts), [used EXCEPT !.extras = @ + 1])
  /\ UNCHANGED <<engineVars, configured, pair, probe, lastWrite>>

(***************************************************************************)
(* Specification: the operations of the UI (a load, a refresh, a           *)
(* preference write) run one after the other, each as the sequence of its  *)
(* continuations; the clock moves between them                             *)
(***************************************************************************)
Next ==
  \/ Tick
  \/ \E p \in Procs : LoadStart(p)
  \/ \E p \in Procs : RecHasRead(p)
  \/ \E p \in Procs : RecPrefsRead(p)
  \/ \E p \in Procs : getMoviesFromAPI_Call(p)
  \/ \E p \in Procs : getMoviesFromAPI_Success(p)
  \/ \E p \in Procs : getMoviesFromAPI_Failure(p)
  \/ \E p \in Procs : getTVShowsFromAPI_Call(p)
  \/ \E p \in Procs : getTVShowsFromAPI_Success(p)
  \/ \E p \in Procs : getTVShowsFromAPI_Failure(p)
  \/ \E p \in Procs : Build(p)
  \/ \E p \in Procs : RefreshStart(p)
  \/ \E p \in Procs : RefreshHasRead(p)
  \/ \E p \in Procs : RefreshPrefsRead(p)
  \/ \E p \in Procs : RefreshCall(p)
  \/ \E p \in Procs : RefreshReturn(p)
  \/ SetStart
  \/ AddStart
  \/ RemoveStart
  \/ AddRead
  \/ RemoveRead
  \/ UpdateRead
  \/ UpdateWrite

Spec == Init /\ [][Next]_vars

(***************************************************************************)
(* Specification of the search screen: a session of SearchScreen, on a     *)
(* device whose catalogue client is configured or not                      *)
(***************************************************************************)
InitSearch ==
  /\ EngineInit
  /\ ScreenInit
  /\ configured \in BOOLEAN
  /\ pair = NoPair
  /\ probe = NoProbe
  /\ lastWrite = NoWrite

NextSearch ==
  \/ Focus
  \/ ChangeText(MaxQueries)
  \/ handleSearchSubmit(MaxQueries, MaxExtraSearches)
  \/ SubmitTooShort
  \/ TryFavoriteGenres
  \/ \E s \in SearchSlots : SearchSuccess(s)
  \/ \E s \in SearchSlots : SearchFailure(s)
  \/ \E s \in SearchSlots : HistoryWritten(s)
  \/ \E s \in SearchSlots : HistoryFailed(s)
  \/ AlertOk
  \/ AlertRetry

SpecSearch == InitSearch /\ [][NextSearch]_vars

(***************************************************************************)
(* Specification of a session that fills the search cache: the upstream    *)
(* answers every search, the session submits query after query, repeats    *)
(* one, changes the filter                                                 *)
(***************************************************************************)
NextFill ==
  \/ Focus
  \/ ChangeText(MaxFillQueries)
  \/ handleSearchSubmit(MaxFillQueries, MaxFillExtras)
  \/ handleToggleGenreFilter
  \/ handleClearGenreFilters
  \/ \E s \in SearchSlots : SearchSuccess(s)
  \/ \E s \in SearchSlots : HistoryWritten(s)

\* the device holds no saved preferences
InitFill == Init /\ storage = <<>>

SpecFill == InitFill /\ [][NextFill]_vars

(***************************************************************************)
(* Specification of the preference store: a settings session calls         *)
(* setGenrePreferences, addGenrePreference and removeGenrePreference one   *)
(* after the other and looks at what is stored after each                  *)
(***************************************************************************)
\* the ids of getAllGenres() that the model uses
AllGenreIds == {28, 12, 16, 35}

\* the lists and the ids the session writes: known ids, and one that is not
\* in the genre table
SessionChoices == { <<12, 28, 35>>, <<28, 999>>, <<>> }

SessionGenreIds == {35, 28, 999}

\* a write of the session starts while nothing else is in flight; the
\* history records the call and the list stored before it
SessionBegin(op, pc, genreId, genreIds) ==
  /\ \A q \in Procs : callers[q].pc = "idle"
  /\ writer.pc = "idle"
  /\ writes < MaxPrefWrites
  /\ writes' = writes + 1
  /\ writer' = [WriterIdle EXCEPT !.pc = pc, !.genreId = genreId,
                                  !.genreIds = genreIds]
  /\ lastWrite' = [NoWrite EXCEPT
                     !.op = op, !.genreId = genreId, !.genreIds = genreIds,
                     !.before = getGenrePreferences(storage, TRUE),
                     !.result = "pending"]
  /\ UNCHANGED <<generalCache, personalizedCache, storage, now, callers,
                 hook, ops, populated, screenVars, pair, probe>>

\* setGenrePreferences(genreIds)
SessionSet ==
  \E genreIds \in SessionChoices : SessionBegin("set", "upd_read", 0, genreIds)

\* addGenrePreference(genreId)
SessionAdd ==
  \E genreId \in SessionGenreIds :
     SessionBegin("add", "add_read", genreId, <<>>)

\* removeGenrePreference(genreId)
SessionRemove ==
  \E genreId \in SessionGenreIds :
     SessionBegin("remove", "remove_read", genreId, <<>>)

NextPrefs ==
  \/ SessionSet
  \/ SessionAdd
  \/ SessionRemove
  \/ AddRead
  \/ RemoveRead
  \/ UpdateRead
  \/ UpdateWrite

SpecPrefs == Init /\ [][NextPrefs]_vars

(***************************************************************************)
(* Specification of the cache key: two searches, each a query and the      *)
(* genre filters in the order they were selected, and the keys              *)
(* performSearch computes for them                                          *)
(***************************************************************************)
KeyQueries ==
  { <<"a", "b", "c">>, <<"A", "B", "C">>, <<"a", "B", "c">>,
    <<"a", "b", "d">>, <<"a", "_", "9">>, <<"a">> }

KeyGenreIds == {9, 12, 28}

\* the selections of at most MaxKeyFilters genres, in every order
KeyFilters ==
  UNION { { f \in [1..n -> KeyGenreIds] :
              \A i, j \in 1..n : i # j => f[i] # f[j] } :
          n \in 0..MaxKeyFilters }

InitKey ==
  /\ EngineInit
  /\ ScreenInit
  /\ configured = TRUE
  /\ lastWrite = NoWrite
  /\ probe = NoProbe
  /\ storage = <<>>
  /\ \E queryA \in KeyQueries, queryB \in KeyQueries,
        filtersA \in KeyFilters, filtersB \in KeyFilters :
        pair = [NoPair EXCEPT !.queryA = queryA, !.filtersA = filtersA,
                              !.queryB = queryB, !.filtersB = filtersB]

\* const cacheKey = ... of the two searches
ComputeKeys ==
  /\ ~pair.done
  /\ pair' = [pair EXCEPT
                !.keyA = cacheKey(pair.queryA, pair.filtersA),
                !.keyB = cacheKey(pair.queryB, pair.filtersB),
                !.done = TRUE]
  /\ UNCHANGED <<engineVars, screenVars, probe, lastWrite>>

NextKey == ComputeKeys

SpecKey == InitKey /\ [][NextKey]_vars



(***************************************************************************)
(* genreStorage.ts: the readers of the preference store                    *)
(***************************************************************************)
\* a JavaScript number that is the quotient of two integers, kept exact
Ratio(n, d) == [num |-> n, den |-> d]

\* a <= b for two quotients with positive denominators
RatioLeq(a, b) == a.num * b.den <= b.num * a.den

\* getAllGenres(), in the order of the table
allGenres == <<28, 12, 16, 35>>

CompletionCount == 3
ExcellentCount == 5
LargeCount == 15

\* contentGenreIds.filter(id => preferences.includes(id))
matchingGenres(preferences, contentGenreIds) ==
  SelectSeq(contentGenreIds, LAMBDA id : Includes(preferences, id))

\* getGenreMatchScore(contentGenreIds), preferences being the list that
\* getGenrePreferences() returned:
\*   matchScore * 0.7 + genreRatio * 0.3
\*     = (7 * m * |content| + 3 * m * |preferences|)
\*         / (10 * |preferences| * |content|)
getGenreMatchScore(preferences, contentGenreIds) ==
  IF Len(preferences) = 0 \/ Len(contentGenreIds) = 0
  THEN Ratio(0, 1)
  ELSE LET m == Len(matchingGenres(preferences, contentGenreIds))
       IN  Ratio(7 * m * Len(contentGenreIds) + 3 * m * Len(preferences),
                 10 * Len(preferences) * Len(contentGenreIds))

\* the recommendations of getGenreCompletionStatus()
CompletionAdvice(preferences) ==
  IF Len(preferences) = 0 THEN << "select at least 3" >>
  ELSE IF Len(preferences) < CompletionCount THEN << "select more" >>
  ELSE IF Len(preferences) >= ExcellentCount THEN << "great" >>
  ELSE << >>

getGenreCompletionStatusStrict(preferences) ==
  [isComplete |-> Len(preferences) > CompletionCount,
   coverage |-> Ratio(Min(Len(preferences), CompletionCount),
                      CompletionCount),
   missingGenres |->
     SelectSeq(allGenres, LAMBDA g : ~Includes(preferences, g)),
   recommendations |-> CompletionAdvice(preferences)]

\* getGenreCompletionStatus(): coverage = Math.min(length / 3, 1), kept as
\* the quotient min(length, 3) / 3
getGenreCompletionStatus(preferences) ==
  [isComplete |-> Len(preferences) >= CompletionCount,
   coverage |-> Ratio(Min(Len(preferences), CompletionCount),
                      CompletionCount),
   missingGenres |->
     SelectSeq(allGenres, LAMBDA g : ~Includes(preferences, g)),
   recommendations |-> CompletionAdvice(preferences)]

\* validateGenrePreferences(): errors and warnings in the order pushed
validateGenrePreferences(preferences) ==
  LET invalidGenres ==
        SelectSeq(preferences, LAMBDA id : ~Includes(allGenres, id))
      errors ==
        IF Len(invalidGenres) > 0 THEN << "invalid ids" >> ELSE << >>
      duplicates ==
        IF Cardinality(Range(preferences)) # Len(preferences)
        THEN << "duplicates" >> ELSE << >>
      size ==
        IF Len(preferences) = 0 THEN << "none set" >>
        ELSE IF Len(preferences) > LargeCount THEN << "too many" >>
        ELSE << >>
  IN  [isValid |-> Len(errors) = 0, errors |-> errors,
       warnings |-> duplicates \o size]

(***************************************************************************)
(* Specification of the readers: the store holds some list, a screen       *)
(* calls getGenreMatchScore, getGenreCompletionStatus or                    *)
(* validateGenrePreferences, and the read of the store may fail            *)
(***************************************************************************)
MaxStoredGenres == 3
MaxContentGenres == 2

\* ids a stored list may hold: two of the table, one outside it
ReaderGenreIds == {28, 12, 999}

\* ids the genre list of a catalog item may hold
ContentGenreIds == {28, 12, 16}

\* a selection of more than LargeCount genres
LargeSelection == [i \in 1..(LargeCount + 1) |-> allGenres[(i % Len(allGenres)) + 1]]

\* setGenrePreferences stores the list it is given as it is, so the store
\* may hold any list: every list of at most MaxStoredGenres ids (repeated
\* ids included), and the large selection
StoredLists ==
  UNION { [1..n -> ReaderGenreIds] : n \in 0..MaxStoredGenres }
    \cup { LargeSelection }

ContentGenreLists ==
  UNION { [1..n -> ContentGenreIds] : n \in 0..MaxContentGenres }

InitReaders ==
  /\ generalCache = EmptyCache
  /\ personalizedCache = EmptyCache
  /\ storage \in { <<>> } \cup
                 { <<[favoriteGenres |-> list]>> : list \in StoredLists }
  /\ now = CACHE_DURATION
  /\ callers = [p \in 1..NumCallers |-> Idle]
  /\ writer = WriterIdle
  /\ hook = [categories |-> <<>>, error |-> NULL]
  /\ ops = 0
  /\ writes = 0
  /\ populated = NothingPopulated
  /\ ScreenInit
  /\ configured = TRUE
  /\ pair = NoPair
  /\ probe = NoProbe
  /\ lastWrite = NoWrite

\* a reader runs to its end: it reads the store, which may fail, and returns
Read(fn, readOk, contentGenreIds, result) ==
  /\ probe' = [fn |-> fn, readOk |-> readOk,
               preferences |-> getGenrePreferences(storage, readOk),
               contentGenreIds |-> contentGenreIds, result |-> result]
  /\ UNCHANGED <<engineVars, screenVars, pair, lastWrite>>

MatchScore ==
  \E readOk \in BOOLEAN, contentGenreIds \in ContentGenreLists :
     Read("getGenreMatchScore", readOk, contentGenreIds,
          getGenreMatchScore(getGenrePreferences(storage, readOk),
                             contentGenreIds))

CompletionStatus ==
  \E readOk \in BOOLEAN :
     Read("getGenreCompletionStatus", readOk, <<>>,
          getGenreCompletionStatus(getGenrePreferences(storage, readOk)))

Validate ==
  \E readOk \in BOOLEAN :
     Read("validateGenrePreferences", readOk, <<>>,
          validateGenrePreferences(getGenrePreferences(storage, readOk)))

NextReaders ==
  \/ MatchScore
  \/ CompletionStatus
  \/ Validate

SpecReaders == InitReaders /\ [][NextReaders]_vars

(***************************************************************************)
(* Specification of a warm start: an earlier load has stored the pools of  *)
(* the current mode's entry one clock advance ago; loads and refreshes     *)
(* follow.  probe keeps the pools that load stored.                         *)
(***************************************************************************)
\* a merged movie pool of more than CategoryLimit items
LargePool ==
  [i \in 1..(CategoryLimit + 1) |->
     transformTMDbMovie(
       [id |-> i, title |-> "m", vote_average |-> (3 * i) % 10,
        popularity |-> (7 * i) % 11,
        genre_ids |-> IF i % 2 = 0 THEN <<28>> ELSE <<16>>])]

\* the movie pools the earlier round may have stored: none of the catalog's
\* items, two of them, or the large pool
WarmMovies ==
  { <<>>,
    <<transformTMDbMovie(RawMovieB), transformTMDbMovie(RawMovieA)>>,
    LargePool }

WarmTVShows ==
  { <<transformTMDbTVShow(RawTVB), transformTMDbTVShow(RawTVA)>> }

\* the preferences stored, and the list the earlier load read them as
WarmPreferences ==
  { [stored |-> <<>>, computedFor |-> <<>>],
    [stored |-> <<28, 12, 16>>, computedFor |-> <<28, 12, 16>>],
    [stored |-> <<12, 28, 16>>, computedFor |-> <<28, 12, 16>>] }

WarmEntry(movies, tvShows, userGenres, t) ==
  [movies |-> movies, tvShows |-> tvShows, lastUpdate |-> t,
   userGenres |-> userGenres]

InitWarm ==
  \E movies \in WarmMovies, tvShows \in WarmTVShows,
     preferences \in WarmPreferences :
     LET name == getCache(preferences.computedFor)
         entry == WarmEntry(movies, tvShows, preferences.computedFor,
                            CACHE_DURATION)
         stored == [at |-> CACHE_DURATION,
                    genres |-> preferences.computedFor]
     IN /\ generalCache = IF name = "general" THEN entry ELSE EmptyCache
        /\ personalizedCache =
             IF name = "personalized" THEN entry ELSE EmptyCache
        /\ storage = IF Len(preferences.stored) = 0 THEN <<>>
                     ELSE <<[favoriteGenres |-> preferences.stored]>>
        /\ now = CACHE_DURATION + TickMs
        /\ callers = [p \in 1..NumCallers |-> Idle]
        /\ writer = WriterIdle
        /\ hook = [categories |-> <<>>, error |-> NULL]
        /\ ops = 1
        /\ writes = 0
        /\ populated = [NothingPopulated EXCEPT
                          ![name] = [media \in MediaTypes |-> stored]]
        /\ ScreenInit
        /\ configured = TRUE
        /\ pair = NoPair
        /\ probe = [NoProbe EXCEPT
                      !.fn = "populated",
                      !.preferences = preferences.computedFor,
                      !.result = [movies |-> movies, tvShows |-> tvShows]]
        /\ lastWrite = NoWrite

NextWarm ==
  \/ Tick
  \/ \E p \in Procs : LoadStart(p)
  \/ \E p \in Procs : RecHasRead(p)
  \/ \E p \in Procs : RecPrefsRead(p)
  \/ \E p \in Procs : getMoviesFromAPI_Call(p)
  \/ \E p \in Procs : getMoviesFromAPI_Success(p)
  \/ \E p \in Procs : getMoviesFromAPI_Failure(p)
  \/ \E p \in Procs : getTVShowsFromAPI_Call(p)
  \/ \E p \in Procs : getTVShowsFromAPI_Success(p)
  \/ \E p \in Procs : getTVShowsFromAPI_Failure(p)
  \/ \E p \in Procs : Build(p)
  \/ \E p \in Procs : RefreshStart(p)
  \/ \E p \in Procs : RefreshHasRead(p)
  \/ \E p \in Procs : RefreshPrefsRead(p)
  \/ \E p \in Procs : RefreshCall(p)
  \/ \E p \in Procs : RefreshReturn(p)

SpecWarm == InitWarm /\ [][NextWarm]_vars

\* a continuation of the operation a caller has in flight, the last one
\* (Build, which runs whenever the caller is at "build") apart
Continuation(p) ==
  \/ RecHasRead(p)
  \/ RecPrefsRead(p)
  \/ getMoviesFromAPI_Call(p)
  \/ getMoviesFromAPI_Success(p)
  \/ getMoviesFromAPI_Failure(p)
  \/ getTVShowsFromAPI_Call(p)
  \/ getTVShowsFromAPI_Success(p)
  \/ getTVShowsFromAPI_Failure(p)
  \/ RefreshHasRead(p)
  \/ RefreshPrefsRead(p)
  \/ RefreshCall(p)
  \/ RefreshReturn(p)

(***************************************************************************)
(* The population round fetch by fetch: each of the four promises of a     *)
(* round fulfils or rejects on its own                                     *)
(***************************************************************************)
\* the fetches of a round that reject: none, one, two, all four
Rejections == {{}, {3}, {2, 4}, {1, 2, 3, 4}}

\* the responses of the fetches that fulfilled, in call order
RECURSIVE Fulfilled(_, _, _)
Fulfilled(responses, rejected, k) ==
  IF k > Len(responses) THEN <<>>
  ELSE (IF k \in rejected THEN <<>> ELSE <<responses[k]>>)
       \o Fulfilled(responses, rejected, k + 1)

\* const responses = await Promise.all(promises): rejects as soon as one of
\* the promises rejects, and then yields no response at all
AwaitAllSettled(responses, rejected, arrival) ==
  [fulfilled |-> TRUE, value |-> Fulfilled(responses, rejected, 1)]

AwaitAll(responses, rejected, arrival) ==
  IF rejected = {} THEN [fulfilled |-> TRUE,
                         value |-> PromiseAll(responses, arrival)]
  ELSE [fulfilled |-> FALSE, value |-> <<>>]

\* the four fetches of a pending call have settled: the try block runs to
\* its end, or the catch block returns cache.<media>
PoolRound(p, media) ==
  LET c == callers[p]
      name == getCache(c.userGenres)
      cache == CacheOf(name)
  IN /\ c.pool[media].pending
     /\ \E responses \in Rounds(media), rejected \in Rejections,
           arrival \in ArrivalOrders :
          LET settled == AwaitAll(responses, rejected, arrival)
              unique == Unique(PushAll(settled.value, media, 1))
          IN /\ probe' = [NoProbe EXCEPT
                            !.fn = "round",
                            !.result = [media |-> media,
                                        rejected |-> rejected,
                                        pages |-> responses,
                                        entry |-> cache]]
             /\ IF settled.fulfilled
                  THEN /\ SetCache(name, [cache EXCEPT
                                 ![media] = unique,
                                 !.lastUpdate = c.pool[media].calledAt,
                                 !.userGenres = c.userGenres])
                       /\ callers' =
                            [Detach(callers, name, media) EXCEPT ![p] =
                               [c EXCEPT
                                  !.pc = IF c.pc = PcWait(media)
                                           THEN PcAfter(media) ELSE c.pc,
                                  !.pool[media] =
                                     [NoCall EXCEPT !.ref = "cache",
                                                    !.how = "success",
                                                    !.outcome = "ok",
                                                    !.pages = responses]]]
                       /\ populated' = [populated EXCEPT ![name][media] =
                                          [at |-> now,
                                           genres |-> c.userGenres]]
                  ELSE /\ callers' = [callers EXCEPT ![p] =
                            [c EXCEPT
                               !.pc = IF c.pc = PcWait(media)
                                        THEN PcAfter(media) ELSE c.pc,
                               !.pool[media] =
                                  [NoCall EXCEPT
                                     !.ref = "cache", !.how = "failure",
                                     !.outcome = CatchResult(cache[media]).outcome,
                                     !.before = c.pool[media].before]]]
                       /\ UNCHANGED <<generalCache, personalizedCache,
                                      populated>>
     /\ UNCHANGED <<storage, now, writer, hook, ops, writes,
                    screenVars, pair, lastWrite>>

getMoviesFromAPI_Round(p) == PoolRound(p, "movies")
getTVShowsFromAPI_Round(p) == PoolRound(p, "tvShows")

NextRound ==
  \/ Tick
  \/ \E p \in Procs : LoadStart(p)
  \/ \E p \in Procs : RecHasRead(p)
  \/ \E p \in Procs : RecPrefsRead(p)
  \/ \E p \in Procs : getMoviesFromAPI_Call(p)
  \/ \E p \in Procs : getMoviesFromAPI_Round(p)
  \/ \E p \in Procs : getTVShowsFromAPI_Call(p)
  \/ \E p \in Procs : getTVShowsFromAPI_Round(p)
  \/ \E p \in Procs : Build(p)
  \/ \E p \in Procs : RefreshStart(p)
  \/ \E p \in Procs : RefreshHasRead(p)
  \/ \E p \in Procs : RefreshPrefsRead(p)
  \/ \E p \in Procs : RefreshCall(p)
  \/ \E p \in Procs : RefreshReturn(p)

SpecRound == InitWarm /\ [][NextRound]_vars

(***************************************************************************)
(* Specification of the personalized category builder: the two pools the   *)
(* pool calls returned and the list getGenrePreferences returned are drawn *)
(* from bounded sets, and getPersonalizedCategories runs on them           *)
(***************************************************************************)
MaxPreferred == 3      \* longest preference list given to the builder

BuilderGenreIds == {28, 12, 16}

\* the lists that pass hasUserPreferences, repeated ids included
BuilderPreferences ==
  UNION { [1..n -> BuilderGenreIds] : n \in MinPreferences..MaxPreferred }

\* a movie pool with more than CategoryLimit items of one genre
CrowdedPool ==
  [i \in 1..(CategoryLimit + 1) |->
     [LargePool[i] EXCEPT
        !.genre_ids = IF i % 3 = 0 THEN <<28, 12>> ELSE <<28>>]]

BuilderMovies == WarmMovies \cup {CrowdedPool}

BuilderTVShows ==
  { <<>>, <<transformTMDbTVShow(RawTVB), transformTMDbTVShow(RawTVA)>> }

InitBuilder ==
  /\ generalCache = EmptyCache
  /\ personalizedCache = EmptyCache
  /\ now = CACHE_DURATION
  /\ callers = [p \in 1..NumCallers |-> Idle]
  /\ writer = WriterIdle
  /\ hook = [categories |-> <<>>, error |-> NULL]
  /\ ops = 0
  /\ writes = 0
  /\ populated = NothingPopulated
  /\ ScreenInit
  /\ configured = TRUE
  /\ pair = NoPair
  /\ lastWrite = NoWrite
  /\ \E movies \in BuilderMovies, tvShows \in BuilderTVShows,
        preferences \in BuilderPreferences :
       /\ storage = <<[favoriteGenres |-> preferences]>>
       /\ probe = [NoProbe EXCEPT
                     !.fn = "pools",
                     !.preferences = preferences,
                     !.result = [movies |-> movies, tvShows |-> tvShows]]

\* getPersonalizedCategories(userGenres) once both pool calls have returned
PersonalizedCategories ==
  /\ probe.fn = "pools"
  /\ probe' = [probe EXCEPT
                 !.fn = "getPersonalizedCategories",
                 !.result =
                    [movies |-> probe.result.movies,
                     tvShows |-> probe.result.tvShows,
                     categories |->
                       getPersonalizedCategories(probe.result.movies,
                                                 probe.result.tvShows,
                                                 probe.preferences)]]
  /\ UNCHANGED <<engineVars, screenVars, pair, lastWrite>>

NextBuilder == PersonalizedCategories

SpecBuilder == InitBuilder /\ [][NextBuilder]_vars

(***************************************************************************)
(* Specification of the fingerprint comparison: genresMatch applied to two *)
(* lists the preference store can return                                   *)
(***************************************************************************)
\* the lists getGenrePreferences can return: whatever list was stored
FingerprintLists ==
  UNION { [1..n -> BuilderGenreIds] : n \in 0..MaxPreferred }

InitMatch ==
  /\ EngineInit
  /\ ScreenInit
  /\ configured = TRUE
  /\ pair = NoPair
  /\ lastWrite = NoWrite
  /\ storage = <<>>
  /\ \E userGenres \in FingerprintLists, cachedGenres \in FingerprintLists :
       probe = [NoProbe EXCEPT !.fn = "lists",
                               !.preferences = userGenres,
                               !.contentGenreIds = cachedGenres]

\* genresMatch(userGenres, cachedGenres) and genresMatch(cachedGenres,
\* userGenres)
CompareFingerprints ==
  /\ probe.fn = "lists"
  /\ probe' = [probe EXCEPT
                 !.fn = "genresMatch",
                 !.result =
                    [forth |-> genresMatch(probe.preferences,
                                           probe.contentGenreIds),
                     back |-> genresMatch(probe.contentGenreIds,
                                          probe.preferences)]]
  /\ UNCHANGED <<engineVars, screenVars, pair, lastWrite>>

NextMatch == CompareFingerprints

SpecMatch == InitMatch /\ [][NextMatch]_vars

(***************************************************************************)
(* Specification of overlapping invocations, on a device with no saved     *)
(* preferences: a load or refresh may be started while another is at one   *)
(* of its awaits, and the clock moves on while fetches are in flight       *)
(***************************************************************************)
InitOverlap ==
  /\ generalCache = EmptyCache
  /\ personalizedCache = EmptyCache
  /\ storage = <<>>
  /\ now = CACHE_DURATION
  /\ callers = [p \in 1..(NumCallers + 1) |-> Idle]
  /\ writer = WriterIdle
  /\ hook = [categories |-> <<>>, error |-> NULL]
  /\ ops = 0
  /\ writes = 0
  /\ populated = NothingPopulated
  /\ ScreenInit
  /\ configured = TRUE
  /\ pair = NoPair
  /\ probe = NoProbe
  /\ lastWrite = NoWrite

\* Date.now() moves on while the fetches of a round are in flight
Elapse ==
  /\ now < CACHE_DURATION + MaxTicks * TickMs
  /\ \E p \in Procs, media \in MediaTypes : callers[p].pool[media].pending
  /\ now' = now + TickMs
  /\ UNCHANGED <<generalCache, personalizedCache, storage, callers, writer,
                 hook, ops, writes, populated,
                 screenVars, pair, probe, lastWrite>>

\* a new invocation takes the first idle slot
FirstIdle(p) ==
  /\ callers[p].pc = "idle"
  /\ \A q \in Procs : callers[q].pc = "idle" => p <= q

\* loadData() / refresh() called whatever else is in flight
LoadOverlapping(p) == FirstIdle(p) /\ LoadBegin(p)

RefreshOverlapping(p) == FirstIdle(p) /\ RefreshBegin(p)

NextOverlap ==
  \/ Elapse
  \/ \E p \in Procs : LoadOverlapping(p)
  \/ \E p \in Procs : RefreshOverlapping(p)
  \/ \E p \in Procs : RecHasRead(p)
  \/ \E p \in Procs : getMoviesFromAPI_Call(p)
  \/ \E p \in Procs : getMoviesFromAPI_Success(p)
  \/ \E p \in Procs : getTVShowsFromAPI_Call(p)
  \/ \E p \in Procs : getTVShowsFromAPI_Success(p)
  \/ \E p \in Procs : Build(p)
  \/ \E p \in Procs : RefreshHasRead(p)
  \/ \E p \in Procs : RefreshCall(p)
  \/ \E p \in Procs : RefreshReturn(p)

SpecOverlap == InitOverlap /\ [][NextOverlap]_vars

(***************************************************************************)
(* Specification of two preference writes issued without awaiting one      *)
(* another: addGenrePreference(a) and addGenrePreference(b), each running  *)
(* as the sequence of its awaits.  The first call is kept in `writer`, the *)
(* second in probe.result; probe.readOk records that no storage read or    *)
(* write has failed so far.                                                *)
(***************************************************************************)
ConcurrentStorage == { <<>>, <<[favoriteGenres |-> <<12>>]>> }

InitConcurrent ==
  /\ generalCache = EmptyCache
  /\ personalizedCache = EmptyCache
  /\ storage \in ConcurrentStorage
  /\ now = CACHE_DURATION
  /\ callers = [p \in 1..NumCallers |-> Idle]
  /\ writer = WriterIdle
  /\ hook = [categories |-> <<>>, error |-> NULL]
  /\ ops = 0
  /\ writes = 0
  /\ populated = NothingPopulated
  /\ ScreenInit
  /\ configured = TRUE
  /\ pair = NoPair
  /\ probe = [NoProbe EXCEPT !.result = WriterIdle]
  /\ lastWrite = NoWrite

Calls == {1, 2}

CallOf(w) == IF w = 1 THEN writer ELSE probe.result

\* call w moves to `next`; ok: the storage access of the step succeeded
CallStep(w, next, ok) ==
  /\ writer' = IF w = 1 THEN next ELSE writer
  /\ probe' = [probe EXCEPT !.result = IF w = 2 THEN next ELSE @,
                            !.readOk = @ /\ ok]

\* addGenrePreference(a); addGenrePreference(b); in one handler, neither
\* awaited: both issue their getGenrePreferences()
AddTwo ==
  /\ probe.fn = "none"
  /\ \E a \in SessionGenreIds : \E b \in SessionGenreIds \ {a} :
       /\ writer' = [WriterIdle EXCEPT !.pc = "add_read", !.genreId = a]
       /\ probe' = [probe EXCEPT
                      !.fn = "addGenrePreference",
                      !.preferences = <<a, b>>,
                      !.result = [WriterIdle EXCEPT !.pc = "add_read",
                                                    !.genreId = b]]
  /\ writes' = writes + 2
  /\ UNCHANGED <<generalCache, personalizedCache, storage, now, callers,
                 hook, ops, populated, screenVars, pair, lastWrite>>

\* addGenrePreference: currentGenres read; append when absent, then
\* setGenrePreferences(updatedGenres); return true when already present
ConcurrentAddRead(w) ==
  LET call == CallOf(w)
  IN /\ call.pc = "add_read"
     /\ \E readOk \in BOOLEAN :
          LET currentGenres == getGenrePreferences(storage, readOk)
          IN CallStep(w,
               IF ~Includes(currentGenres, call.genreId)
                 THEN [call EXCEPT
                         !.pc = "upd_read",
                         !.genreIds = Append(currentGenres, call.genreId)]
                 ELSE WriterIdle,
               readOk)
     /\ UNCHANGED <<generalCache, personalizedCache, storage, now, callers,
                    hook, ops, writes, populated, screenVars, pair,
                    lastWrite>>

\* updateUserPreferences: currentPreferences = await getUserPreferences()
ConcurrentUpdateRead(w) ==
  LET call == CallOf(w)
  IN /\ call.pc = "upd_read"
     /\ \E readOk \in BOOLEAN :
          CallStep(w, [call EXCEPT
                         !.pc = "upd_write",
                         !.current = getUserPreferences(storage, readOk)],
                   readOk)
     /\ UNCHANGED <<generalCache, personalizedCache, storage, now, callers,
                    hook, ops, writes, populated, screenVars, pair,
                    lastWrite>>

\* updateUserPreferences: setStorageItem({...current, ...preferences})
ConcurrentUpdateWrite(w) ==
  LET call == CallOf(w)
  IN /\ call.pc = "upd_write"
     /\ \E writeOk \in BOOLEAN :
          /\ storage' = IF writeOk
                          THEN << UpdatedPreferences(call.current,
                                                     call.genreIds) >>
                          ELSE storage
          /\ CallStep(w, WriterIdle, writeOk)
     /\ UNCHANGED <<generalCache, personalizedCache, now, callers, hook,
                    ops, writes, populated, screenVars, pair, lastWrite>>

NextConcurrent ==
  \/ AddTwo
  \/ \E w \in Calls : ConcurrentAddRead(w)
  \/ \E w \in Calls : ConcurrentUpdateRead(w)
  \/ \E w \in Calls : ConcurrentUpdateWrite(w)

SpecConcurrent == InitConcurrent /\ [][NextConcurrent]_vars

(***************************************************************************)
(* Specification of a search session across a change of preferences: the   *)
(* user leaves SearchScreen, another screen stores a preference list, the  *)
(* user comes back (useFocusEffect reloads the preferences) and searches   *)
(* again; the upstream answers every search                                *)
(***************************************************************************)
\* the screen loses focus; it stays mounted and keeps its state
Blur ==
  /\ screen.focused
  /\ alerts = <<>>
  /\ Quiet
  /\ screen' = [screen EXCEPT !.focused = FALSE]
  /\ UNCHANGED <<engineVars, searches, alerts, configured, used, observed,
                 pair, probe, lastWrite>>

\* setGenrePreferences(genreIds) called from another screen
SetElsewhere == ~screen.focused /\ SetStart

NextRefocus ==
  \/ Focus
  \/ Blur
  \/ ChangeText(MaxQueries)
  \/ handleSearchSubmit(MaxQueries, MaxExtraSearches)
  \/ \E s \in SearchSlots : SearchSuccess(s)
  \/ \E s \in SearchSlots : HistoryWritten(s)
  \/ SetElsewhere
  \/ UpdateRead
  \/ UpdateWrite

InitRefocus == Init /\ storage = <<>>

SpecRefocus == InitRefocus /\ [][NextRefocus]_vars

(***************************************************************************)
(* Specification of the ranking: a response of searchMulti, the            *)
(* preferences the screen loaded, and the list performSearch builds from   *)
(* them with no genre selected                                             *)
(***************************************************************************)
MaxFound == 4

\* two more items of the catalogue: MultiMovieC scores as MultiMovieA does
\* without preferences, MultiMovieD as MultiMovieA does with [28, 12, 16]
MultiMovieC ==
  [id |-> 4, title |-> "m4", vote_average |-> 4, popularity |-> 9,
   genre_ids |-> <<16>>, media_type |-> "movie"]

MultiMovieD ==
  [id |-> 5, title |-> "m5", vote_average |-> 7, popularity |-> 5,
   genre_ids |-> <<12, 28>>, media_type |-> "movie"]

FoundItems == {MultiMovieA, MultiTVA, MultiMovieC, MultiMovieD, MultiPerson}

\* the result pages: at most MaxFound different items, in any order
FoundLists ==
  UNION { { f \in [1..n -> FoundItems] :
              \A i, j \in 1..n : i # j => f[i] # f[j] } :
          n \in 0..MaxFound }

RankPreferences == { <<>>, <<28, 12, 16>> }

InitRank ==
  /\ EngineInit
  /\ ScreenInit
  /\ configured = TRUE
  /\ pair = NoPair
  /\ lastWrite = NoWrite
  /\ storage = <<>>
  /\ \E found \in FoundLists, preferences \in RankPreferences :
       probe = [NoProbe EXCEPT !.fn = "searchMulti",
                               !.preferences = preferences,
                               !.result = [found |-> found]]

\* performSearch builds its list from the response
Rank ==
  /\ probe.fn = "searchMulti"
  /\ probe' = [probe EXCEPT
                 !.fn = "performSearch",
                 !.result =
                    [found |-> probe.result.found,
                     results |->
                       SearchResultsOf(TMDbResponse(probe.result.found),
                                       <<>>, probe.preferences)]]
  /\ UNCHANGED <<engineVars, screenVars, pair, lastWrite>>

NextRank == Rank

SpecRank == InitRank /\ [][NextRank]_vars

(***************************************************************************)
(* Properties                                                              *)
(***************************************************************************)
\* two genre lists name the same set: same size, same members
SameGenreSet(a, b) == Len(a) = Len(b) /\ Range(a) = Range(b)

\* the preference list as persisted
StoredGenres == getGenrePreferences(storage, TRUE)

\* the entry a caller's pool calls go to
EntryOf(c) == getCache(c.userGenres)

\* a load or refresh returns its categories to the hook in this step
Returns(p) == callers[p].pc = "build" /\ callers'[p].pc = "idle"

GeneralCategoryIds ==
  <<"popular-movies", "top-rated-movies", "popular-tv", "top-rated-tv">>

\* C1: a pool call on an entry that was successfully populated for the same
\* genre set less than CACHE_DURATION before the call issues no upstream
\* fetch, whatever the size of the list that population stored.
C1_FreshEntryIsNotRefetched ==
  \A p \in Procs, media \in MediaTypes :
    LET c == callers[p]
        call == c.pool[media]
        last == populated[EntryOf(c)][media]
    IN ~ ( /\ call.pending
           /\ last.at > 0
           /\ SameGenreSet(last.genres, c.userGenres)
           /\ call.calledAt - last.at < CACHE_DURATION )

\* C2: freshness is judged per pool: a pool call that returns without
\* fetching returns a pool that was itself populated less than
\* CACHE_DURATION before the call.
C2_HitOnlyOnFreshPool ==
  \A p \in Procs, media \in MediaTypes :
    LET c == callers[p]
        call == c.pool[media]
        last == populated[EntryOf(c)][media]
    IN call.how = "hit" =>
         /\ last.at > 0
         /\ call.calledAt - last.at < CACHE_DURATION

\* C3: in personalized mode a pool call returns cached items without
\* fetching only if the pool was computed for a genre set equal to the
\* requested one.
C3_HitOnlyForEqualGenreSet ==
  \A p \in Procs, media \in MediaTypes :
    LET c == callers[p]
        call == c.pool[media]
        last == populated[EntryOf(c)][media]
    IN (call.how = "hit" /\ EntryOf(c) = "personalized") =>
         SameGenreSet(last.genres, c.userGenres)

\* C4: a step of set/add/remove that changes the persisted genre preference
\* set leaves the personalized cache entry cleared.
C4_PreferenceChangeClearsEntry ==
  [][ ~SameGenreSet(StoredGenres', StoredGenres) =>
        personalizedCache' = EmptyCache ]_vars

\* C5: when a fetch of a population round fails while the entry holds a pool
\* stored for the requested genre set (fresh or expired), the pool call
\* resolves without an error and returns the pool the entry held when the
\* round was started.
C5_FailureServesHeldPool ==
  \A p \in Procs, media \in MediaTypes :
    LET c == callers[p]
        call == c.pool[media]
        last == populated[EntryOf(c)][media]
    IN ( /\ call.how = "failure"
         /\ last.at > 0
         /\ SameGenreSet(last.genres, c.userGenres) )
       => /\ call.outcome = "ok"
          /\ Held(c, media) = call.before

\* a failed round has returned a non-empty pool that had expired
C5_Witness ==
  \E p \in Procs, media \in MediaTypes :
    LET c == callers[p]
        call == c.pool[media]
        last == populated[EntryOf(c)][media]
    IN /\ call.how = "failure"
       /\ last.at > 0
       /\ SameGenreSet(last.genres, c.userGenres)
       /\ now - last.at >= CACHE_DURATION
       /\ Len(call.before) > 0
       /\ Held(c, media) = call.before

\* C6: when a population round fails and no pool was ever stored for that
\* entry and media type, the pool call rejects with the error.
C6_FailureWithoutPoolPropagates ==
  \A p \in Procs, media \in MediaTypes :
    LET c == callers[p]
        call == c.pool[media]
        last == populated[EntryOf(c)][media]
    IN (call.how = "failure" /\ last.at = 0) => call.outcome = "error"

\* C7: when both pool calls of a load fail and nothing was ever stored for
\* the entry, the hook receives zero categories and a non-null error.
C7_FailureWithNothingCachedSurfaces ==
  [][ \A p \in Procs :
        LET c == callers[p]
        IN ( /\ Returns(p)
             /\ \A media \in MediaTypes :
                  /\ c.pool[media].how = "failure"
                  /\ populated[EntryOf(c)][media].at = 0 )
           => /\ hook'.categories = <<>>
              /\ hook'.error # NULL ]_vars

\* the positions <<page, index>> of the items of a round's four pages
Positions(pages) ==
  { <<k, j>> \in (1..Len(pages)) \X (1..MaxPageLen) :
      j <= Len(pages[k].results) }

\* position a comes no later than position b in call order
NoLater(a, b) == a[1] < b[1] \/ (a[1] = b[1] /\ a[2] <= b[2])

\* the item the transformer makes of the raw result at a position
ItemAt(pages, media, pos) ==
  TransformResults(pages[pos[1]], media)[pos[2]]

\* C8: after a successful population round the stored pool has no two items
\* with the same id, holds every id of the four pages, and for each id holds
\* the item of its earliest position in call order, whatever the order in
\* which the responses arrived.
C8_StoredPoolIsFirstSeenUnion ==
  \A p \in Procs, media \in MediaTypes :
    LET c == callers[p]
        call == c.pool[media]
        stored == CacheOf(EntryOf(c))[media]
        at == Positions(call.pages)
    IN (call.how = "success" /\ call.ref = "cache") =>
         /\ \A i, j \in 1..Len(stored) :
              stored[i].id = stored[j].id => i = j
         /\ \A pos \in at :
              \E i \in 1..Len(stored) :
                stored[i].id = ItemAt(call.pages, media, pos).id
         /\ \A i \in 1..Len(stored) :
              \E pos \in at :
                /\ stored[i] = ItemAt(call.pages, media, pos)
                /\ \A other \in at :
                     ItemAt(call.pages, media, other).id = stored[i].id
                       => NoLater(pos, other)

\* a round whose pages repeat an id with different field values was stored
C8_Witness ==
  \E p \in Procs, media \in MediaTypes :
    LET c == callers[p]
        call == c.pool[media]
        stored == CacheOf(EntryOf(c))[media]
        at == Positions(call.pages)
    IN /\ call.how = "success"
       /\ call.ref = "cache"
       /\ Len(stored) > 1
       /\ \E a, b \in at :
            /\ a[1] < b[1]
            /\ ItemAt(call.pages, media, a).id = ItemAt(call.pages, media, b).id
            /\ ItemAt(call.pages, media, a) # ItemAt(call.pages, media, b)

\* C9: the categories a load or refresh returns are the personalized ones,
\* built from the personalized entry, exactly when the preferences were read
\* and the persisted list has at least MinPreferences entries; otherwise,
\* also when a read of the preferences failed, they are the general
\* categories built from the general entry.
C9_ModeFollowsPreferences ==
  [][ \A p \in Procs :
        LET c == callers[p]
        IN Returns(p) =>
             IF ~c.readFailed /\ Len(StoredGenres) >= MinPreferences
               THEN /\ EntryOf(c) = "personalized"
                    /\ hook'.categories # GeneralCategoryIds
               ELSE /\ EntryOf(c) = "general"
                    /\ hook'.categories = GeneralCategoryIds ]_vars

\* C10: when refreshSimpleRecommendations has returned and both rounds it
\* started succeeded, both pools of the entry it warmed were stored during
\* this refresh, and the getSimpleRecommendations call that follows it
\* issues no upstream fetch.
C10_RefreshPrewarmsBothPools ==
  \A p \in Procs :
    LET c == callers[p]
    IN (c.op = "refresh" /\ c.rfOk /\ ~c.readFailed) =>
         /\ c.pc = "rec_has" =>
              \A media \in MediaTypes :
                populated[EntryOf(c)][media].at = now
         /\ \A media \in MediaTypes : ~c.pool[media].pending

\* the keys of the Map, in its order, which is the order of insertion
KeysOf(cache) == [i \in 1..Len(cache) |-> cache[i].key]

\* C11: searchCache never holds more than SearchCacheLimit entries, whatever
\* searches, overlapping or not, and filter changes came before.
C11_CacheNeverExceedsLimit == Len(screen.searchCache) <= SearchCacheLimit

\* the cache is full again after an insertion that evicted an entry
C11_Witness ==
  /\ Len(screen.searchCache) = SearchCacheLimit
  /\ observed.evicted # NoEntry

\* C12: a step that stores a new key in a full searchCache removes exactly
\* the key at the head of the insertion order and appends the new one; a
\* step that stores no new key, a cache hit among them, leaves the order of
\* the keys as it was unless it empties the cache.
C12_EvictsEarliestInserted ==
  [][ LET old == KeysOf(screen.searchCache)
          new == KeysOf(screen'.searchCache)
      IN /\ (Len(old) = SearchCacheLimit /\ ~(Range(new) \subseteq Range(old)))
              => /\ Len(new) = SearchCacheLimit
                 /\ SubSeq(new, 1, SearchCacheLimit - 1) = Tail(old)
                 /\ new[SearchCacheLimit] \notin Range(old)
         /\ (Range(new) \subseteq Range(old) /\ Len(new) > 0)
              => new = old ]_vars

\* the entry an insertion evicted had served a search after it was stored
C12_Witness ==
  /\ observed.evicted.hit
  /\ Len(screen.searchCache) = SearchCacheLimit
  /\ KeyIndex(screen.searchCache, observed.evicted.key) = 0

\* C13: no call of searchMulti is in flight for a query whose trimmed length
\* is below MinQueryLength, whichever handler started the search.
C13_ShortQueriesNeverReachUpstream ==
  \A s \in SearchSlots :
    searches[s].pc = "wait" =>
      Len(trim(searches[s].query)) >= MinQueryLength

\* C14: on a configured client, a performSearch whose key was in searchCache
\* when it was called showed the stored list and called searchMulti not at
\* all, and one whose key was not there called searchMulti exactly once.
C14_HitServesStoredListMissCallsOnce ==
  (configured /\ observed.search.started) =>
    IF observed.search.present
      THEN observed.search.calls = 0 /\ observed.search.served
      ELSE observed.search.calls = 1

\* the kinds of failure of searchMulti
UpstreamKinds == {"network", "timeout", "rate_limit", "server"}

\* C16: the step in which a call of searchMulti ends either reports an
\* upstream failure in an alert and leaves searchCache as it was, or raises
\* no alert, stores the list built from the response under the key of the
\* search, an empty list when nothing matched, and shows that list.
C16_FailureStoresNothingEmptyResultIsStored ==
  [][ \A s \in SearchSlots :
        LET r == searches[s]
            results == SearchResultsOf(searchMulti(r.query), r.filters,
                                       r.preferences)
            index == KeyIndex(screen'.searchCache, r.cacheKey)
        IN (r.pc = "wait" /\ searches'[s].pc # "wait") =>
             \/ /\ Len(alerts') = Len(alerts) + 1
                /\ alerts'[Len(alerts')].kind \in UpstreamKinds
                /\ alerts'[Len(alerts')].query = r.query
                /\ screen'.searchCache = screen.searchCache
             \/ /\ alerts' = alerts
                /\ index > 0
                /\ screen'.searchCache[index].results = results
                /\ screen'.searchResults = results ]_vars

\* a search failed earlier in the session, and searchCache holds the empty
\* list of a search that matched nothing
C16_Witness ==
  /\ used.failures > 0
  /\ alerts = <<>>
  /\ \E i \in 1..Len(screen.searchCache) :
       /\ screen.searchCache[i].results = <<>>
       /\ screen.searchCache[i].query \in ZeroMatchQueries

\* C17: every alert of a failed search names the condition of its failure:
\* "Service Unavailable" for a client that is not configured, "Connection
\* Error" for a network failure or a timeout, "Too Many Requests" for a rate
\* limit.
C17_EachFailureKindHasItsOwnCondition ==
  \A i \in 1..Len(alerts) :
    /\ alerts[i].kind = "not_configured" =>
         alerts[i].title = "Service Unavailable"
    /\ alerts[i].kind \in {"network", "timeout"} =>
         alerts[i].title = "Connection Error"
    /\ alerts[i].kind = "rate_limit" =>
         alerts[i].title = "Too Many Requests"

Others(list, genreId) == SelectSeq(list, LAMBDA id : id # genreId)

\* how often the id occurs in the list
Count(list, genreId) == Len(list) - Len(Others(list, genreId))

\* C18: the persisted preference list holds only ids of the genre table.
C18_StoredIdsAreKnownGenres ==
  \A id \in Range(StoredGenres) : id \in AllGenreIds

C20_AddRemoveTouchOnlyTheirId ==
  (lastWrite.op \in {"add", "remove"} /\ lastWrite.result = "true") =>
    /\ Others(StoredGenres, lastWrite.genreId)
         = Others(lastWrite.before, lastWrite.genreId)
    /\ Count(StoredGenres, lastWrite.genreId)
         = IF lastWrite.op = "add" THEN 1 ELSE 0

\* the number of the item's genres that the preference list includes
Matching(preferences, contentGenreIds) ==
  Len(matchingGenres(preferences, contentGenreIds))

\* C21: getGenreMatchScore returns 0 when the preference list or the item's
\* genre list is empty; otherwise the score lies in [0,1], whatever the two
\* lists (repeated ids included); and with the sizes of both lists fixed, a
\* pair of lists with at least as many matching genres scores at least as
\* much.
C21_MatchScoreInUnitIntervalAndMonotone ==
  probe.fn = "getGenreMatchScore" =>
    LET preferences == probe.preferences
        content == probe.contentGenreIds
        score == probe.result
    IN  /\ (Len(preferences) = 0 \/ Len(content) = 0) => score.num = 0
        /\ RatioLeq(Ratio(0, 1), score)
        /\ RatioLeq(score, Ratio(1, 1))
        /\ \A other \in ContentGenreLists :
             ( /\ Len(other) = Len(content)
               /\ Matching(preferences, other)
                    >= Matching(preferences, content) )
             => RatioLeq(score, getGenreMatchScore(preferences, other))
        /\ \A other \in StoredLists :
             ( /\ Len(other) = Len(preferences)
               /\ Matching(other, content)
                    >= Matching(preferences, content) )
             => RatioLeq(score, getGenreMatchScore(other, content))

\* the part of C21 that the code keeps: 0 for an empty list, never negative,
\* and non-decreasing in the number of matching genres
C21_ZeroAndMonotonePart ==
  probe.fn = "getGenreMatchScore" =>
    LET preferences == probe.preferences
        content == probe.contentGenreIds
        score == probe.result
    IN  /\ (Len(preferences) = 0 \/ Len(content) = 0) => score.num = 0
        /\ RatioLeq(Ratio(0, 1), score)
        /\ \A other \in ContentGenreLists :
             ( /\ Len(other) = Len(content)
               /\ Matching(preferences, other)
                    >= Matching(preferences, content) )
             => RatioLeq(score, getGenreMatchScore(preferences, other))
        /\ \A other \in StoredLists :
             ( /\ Len(other) = Len(preferences)
               /\ Matching(other, content)
                    >= Matching(preferences, content) )
             => RatioLeq(score, getGenreMatchScore(other, content))

C23_InvalidIffStoredListHasUnknownId ==
  probe.fn = "validateGenrePreferences" =>
    LET stored == StoredGenres
        report == probe.result
    IN  /\ DOMAIN report = {"isValid", "errors", "warnings"}
        /\ ~report.isValid <=> \E i \in 1..Len(stored) :
                                  stored[i] \notin Range(allGenres)
        /\ Cardinality(Range(stored)) # Len(stored)
             => Includes(report.warnings, "duplicates")
        /\ Len(stored) = 0 => Includes(report.warnings, "none set")
        /\ Len(stored) > 15 => Includes(report.warnings, "too many")

\* the same statement about the list that getGenrePreferences returned to
\* the validation: this one holds
C23_InvalidIffReadListHasUnknownId ==
  probe.fn = "validateGenrePreferences" =>
    LET read == probe.preferences
        report == probe.result
    IN  /\ DOMAIN report = {"isValid", "errors", "warnings"}
        /\ ~report.isValid <=> \E i \in 1..Len(read) :
                                  read[i] \notin Range(allGenres)
        /\ Cardinality(Range(read)) # Len(read)
             => Includes(report.warnings, "duplicates")
        /\ Len(read) = 0 => Includes(report.warnings, "none set")
        /\ Len(read) > 15 => Includes(report.warnings, "too many")

\* the pool calls of a caller returned without an upstream failure
FetchesSucceeded(c) ==
  \A media \in MediaTypes : c.pool[media].how \in {"hit", "success"}

Titles(categories) == [k \in 1..Len(categories) |-> categories[k].title]

\* keys[1] >= keys[2] >= ...
NonIncreasing(keys) ==
  \A i \in 1..(Len(keys) - 1) : keys[i] >= keys[i + 1]

Popularity(list) == [i \in 1..Len(list) |-> list[i].popularity]

Rating(list) == [i \in 1..Len(list) |-> list[i].vote_average]

\* data holds min(limit, |pool|) different items of pool, and no item of pool
\* left out of it has a larger key than one it holds
TopSliceOf(data, pool, keysOf(_), limit) ==
  /\ Len(data) = Min(limit, Len(pool))
  /\ \A i, j \in 1..Len(data) : i # j => data[i] # data[j]
  /\ Range(data) \subseteq Range(pool)
  /\ \A item \in Range(pool) \ Range(data) :
       \A i \in 1..Len(data) : keysOf(<<item>>)[1] <= keysOf(data)[i]

\* C24: with an empty stored preference list and no upstream failure, the
\* categories returned are Popular Movies, Top Rated Movies, Popular TV
\* Shows, Top Rated TV Shows in that order; each has at most 20 items; the
\* Popular ones are in non-increasing popularity and the Top Rated ones in
\* non-increasing rating; each is the top slice of the whole pool of its
\* media type.
C24_GeneralCategoriesAreSortedTopSlices ==
  [][ \A p \in Procs :
        LET c == callers[p]
            categories == CategoriesFor(c)
            movies == Held(c, "movies")
            tvShows == Held(c, "tvShows")
        IN (Returns(p) /\ StoredGenres = <<>> /\ FetchesSucceeded(c)) =>
             /\ Titles(categories) =
                  << "Popular Movies", "Top Rated Movies",
                     "Popular TV Shows", "Top Rated TV Shows" >>
             /\ hook'.categories = GeneralCategoryIds
             /\ \A k \in 1..4 : Len(categories[k].data) <= 20
             /\ NonIncreasing(Popularity(categories[1].data))
             /\ NonIncreasing(Rating(categories[2].data))
             /\ NonIncreasing(Popularity(categories[3].data))
             /\ NonIncreasing(Rating(categories[4].data))
             /\ TopSliceOf(categories[1].data, movies, Popularity, 20)
             /\ TopSliceOf(categories[2].data, movies, Rating, 20)
             /\ TopSliceOf(categories[3].data, tvShows, Popularity, 20)
             /\ TopSliceOf(categories[4].data, tvShows, Rating, 20) ]_vars

\* a load with no preferences stored is about to return the categories of a
\* movie pool of more than 20 items that is not in popularity order
C24_Witness ==
  \E p \in Procs :
    LET c == callers[p]
    IN /\ c.pc = "build"
       /\ StoredGenres = <<>>
       /\ FetchesSucceeded(c)
       /\ Len(Held(c, "movies")) > 20
       /\ ~NonIncreasing(Popularity(Held(c, "movies")))
       /\ Len(Held(c, "tvShows")) > 0

\* some item of the two pools a caller holds carries the genre
HoldsGenre(c, genreId) ==
  \E item \in Range(Held(c, "movies") \o Held(c, "tvShows")) :
     Includes(item.genre_ids, genreId)

\* C25 as stated: in personalized mode with preferences [28, 12, 16] the
\* categories returned are For You, Trending Now, Best Action, Best
\* Adventure, in that order.
C25_AlwaysFourCategories ==
  [][ \A p \in Procs :
        LET c == callers[p]
        IN (Returns(p) /\ c.personalized /\ c.userGenres = <<28, 12, 16>>) =>
             Titles(CategoriesFor(c)) =
               << "For You", "Trending Now", "Best Action",
                  "Best Adventure" >> ]_vars

\* C25: in personalized mode with preferences [28, 12, 16] the categories
\* returned are For You, Trending Now, then Best Action and Best Adventure
\* in that order, each of the two exactly when the pools hold an item of its
\* genre; there is never a Best category for genre 16.
C25_BestCategoriesOfFirstTwoGenresSkippedIfEmpty ==
  [][ \A p \in Procs :
        LET c == callers[p]
            titles == Titles(CategoriesFor(c))
        IN (Returns(p) /\ c.personalized /\ c.userGenres = <<28, 12, 16>>) =>
             /\ titles =
                  << "For You", "Trending Now" >>
                  \o (IF HoldsGenre(c, 28) THEN << "Best Action" >>
                      ELSE << >>)
                  \o (IF HoldsGenre(c, 12) THEN << "Best Adventure" >>
                      ELSE << >>)
             /\ ~Includes(titles, "Best Animation") ]_vars

\* a personalized load for [28, 12, 16] is about to return the categories of
\* pools that hold items of all three genres
C25_Witness ==
  \E p \in Procs :
    LET c == callers[p]
    IN /\ c.pc = "build"
       /\ c.personalized
       /\ c.userGenres = <<28, 12, 16>>
       /\ HoldsGenre(c, 28)
       /\ HoldsGenre(c, 12)
       /\ HoldsGenre(c, 16)

\* C26: a pool call with the genre ids the entry was populated for, in a
\* different order and less than CACHE_DURATION after that population,
\* issues no upstream fetch.
C26_ReorderedGenresHitTheEntry ==
  \A p \in Procs, media \in MediaTypes :
    LET c == callers[p]
        call == c.pool[media]
        last == populated[EntryOf(c)][media]
    IN ~ ( /\ call.pending
           /\ last.at > 0
           /\ SameGenreSet(last.genres, c.userGenres)
           /\ last.genres # c.userGenres
           /\ call.calledAt - last.at < CACHE_DURATION )

\* the same for an entry whose pool is not empty: this one holds
C26_ReorderedGenresHitANonEmptyPool ==
  \A p \in Procs, media \in MediaTypes :
    LET c == callers[p]
        call == c.pool[media]
        last == populated[EntryOf(c)][media]
    IN ~ ( /\ call.pending
           /\ last.at > 0
           /\ SameGenreSet(last.genres, c.userGenres)
           /\ last.genres # c.userGenres
           /\ call.calledAt - last.at < CACHE_DURATION
           /\ Len(call.before) > 0 )

\* a step in which performSearch is called
SearchCalled == used'.asked # used.asked \/ used'.extras # used.extras

\* every item of the list carries a selected genre when genres are selected;
\* the list holds every item found when none is
RespectsFilters(list, filters, found) ==
  IF Len(filters) > 0
    THEN \A i \in 1..Len(list) :
           \E k \in 1..Len(list[i].genre_ids) :
              list[i].genre_ids[k] \in Range(filters)
    ELSE Len(list) = Len(found) /\ Range(list) = Range(found)

\* C27: the list a search shows, built from the response or taken from
\* searchCache, holds only items with a genre among the filters of that
\* search when it has filters, and every item found when it has none.
C27_ReturnedItemsMatchTheFilters ==
  [][ /\ \A s \in SearchSlots :
           LET r == searches[s]
           IN (r.pc = "wait" /\ searches'[s].pc # "wait") =>
                RespectsFilters(screen'.searchResults, r.filters,
                                SearchItems(searchMulti(r.query)))
      /\ (SearchCalled /\ observed'.search.served) =>
           RespectsFilters(screen'.searchResults,
                           screen.selectedGenreFilters,
                           SearchItems(searchMulti(trim(screen.searchQuery))))
    ]_vars

\* a search with a genre selected was served from searchCache a list that
\* the filter had shortened
C27_Witness ==
  /\ observed.search.served
  /\ Len(screen.selectedGenreFilters) > 0
  /\ Len(screen.searchResults) > 0
  /\ Len(screen.searchResults)
       < Len(SearchItems(searchMulti(trim(screen.searchQuery))))

\* 0.3 * popularity + 0.7 * rating, tenfold
ScoreWithoutPreferences(item) == 3 * item.popularity + 7 * item.vote_average

\* 0.7 * (matching genres / preference count) + 0.3 * (rating / 10), times
\* 100 * preference count
ScoreWithPreferences(item, preferences) ==
  70 * Cardinality({k \in 1..Len(item.genre_ids) :
                      item.genre_ids[k] \in Range(preferences)})
    + 3 * item.vote_average * Len(preferences)

\* the score the ranking is stated for
StatedScore(item, preferences) ==
  IF Len(preferences) = 0 THEN ScoreWithoutPreferences(item)
  ELSE ScoreWithPreferences(item, preferences)

\* where the movie or series stood in the response
PlaceIn(found, item) ==
  CHOOSE k \in 1..Len(found) :
    /\ found[k].media_type = item.media_type
    /\ found[k].id = item.id

\* C28: the list a search returns holds the movies and series of the
\* response in non-increasing order of 0.3*popularity + 0.7*rating when no
\* preferences are loaded and of 0.7*(matching genres / preference count) +
\* 0.3*(rating/10) when some are; items of equal score stand in the order of
\* the response.
C28_RankedByStatedScoreTiesInUpstreamOrder ==
  probe.fn = "performSearch" =>
    LET found == probe.result.found
        results == probe.result.results
        preferences == probe.preferences
    IN  /\ Len(results) =
             Cardinality({k \in 1..Len(found) :
                            found[k].media_type \in {"movie", "tv"}})
        /\ \A i, j \in 1..Len(results) :
             i < j =>
               /\ StatedScore(results[i], preferences)
                    >= StatedScore(results[j], preferences)
               /\ StatedScore(results[i], preferences)
                    = StatedScore(results[j], preferences)
                  => PlaceIn(found, results[i]) < PlaceIn(found, results[j])

\* a response was ranked in which two items of equal score came in an order
\* other items had to be moved around
C28_Witness ==
  /\ probe.fn = "performSearch"
  /\ LET found == probe.result.found
         results == probe.result.results
     IN  /\ \E i, j \in 1..Len(results) :
               /\ i < j
               /\ StatedScore(results[i], probe.preferences)
                    = StatedScore(results[j], probe.preferences)
         /\ \E i, j \in 1..Len(results) :
               /\ i < j
               /\ PlaceIn(found, results[i]) > PlaceIn(found, results[j])

\* how far an operation has come: the awaits of refresh() and of loadData()
\* in the order the code reaches them, and within Promise.all the calls that
\* have settled
Position(c) ==
  LET order == << "rf_has", "rf_prefs", "rf_call", "rf_wait", "rec_has",
                  "rec_prefs", "movies_call", "movies_wait", "tv_call",
                  "tv_wait", "build", "idle" >>
      at == CHOOSE k \in 1..Len(order) : order[k] = c.pc
  IN 3 * at - Cardinality({media \in MediaTypes : c.pool[media].pending})

\* C29: whatever preference reads and upstream fetches fail, no pool call of
\* a load or refresh rejects; while the operation is in flight one of its
\* continuations can run, each one takes it further along the finite
\* sequence of its awaits, and the last one hands a category list to the
\* hook and leaves its error unset.
C29_RecommendationsAlwaysComplete ==
  /\ [](\A p \in Procs, media \in MediaTypes :
          callers[p].pool[media].outcome # "error")
  /\ [](\A p \in Procs :
          callers[p].pc \notin {"idle", "build"} => ENABLED Continuation(p))
  /\ [][ \A p \in Procs :
           /\ (callers[p].pc # "idle" /\ callers'[p] # callers[p])
                => Position(callers'[p]) > Position(callers[p])
           /\ Returns(p) => /\ Len(hook'.categories) >= 2
                            /\ hook'.error = NULL ]_vars

\* a load is about to return although a preference read and both of its
\* rounds failed
C29_Witness ==
  \E p \in Procs :
    LET c == callers[p]
    IN /\ c.pc = "build"
       /\ c.readFailed
       /\ \A media \in MediaTypes : c.pool[media].how = "failure"

\* since the pools were populated one operation has been started and no fetch
\* of it has succeeded
NoFetchSucceededSince ==
  /\ probe.fn = "populated"
  /\ ops = 2
  /\ \A name \in {"general", "personalized"}, media \in MediaTypes :
       populated[name][media].at <= CACHE_DURATION

\* C30: when every fetch after the population of an entry has failed, a load
\* or refresh that reads the same entry returns from pools that hold the
\* items the entry was populated with.
C30_FailuresKeepPopulatedContent ==
  [][ \A p \in Procs, media \in MediaTypes :
        ( /\ Returns(p)
          /\ NoFetchSucceededSince
          /\ getCache(callers[p].userGenres) = getCache(probe.preferences) )
        => Range(Held(callers[p], media)) = Range(probe.result[media]) ]_vars

\* the round of `media` has just settled for caller p with a fetch rejected
RoundFailed(p, media) ==
  /\ callers[p].pool[media].pending
  /\ ~callers'[p].pool[media].pending
  /\ probe'.fn = "round"
  /\ probe'.result.media = media
  /\ probe'.result.rejected # {}

\* C31: a round in which at least one of the four fetches rejects changes
\* nothing in either cache entry (pools, timestamp, fingerprint), the pool is
\* still the one the entry held when the fetches were issued, and the call
\* returns that pool's own array, not a merge of the pages that arrived.
C31_FailedRoundLeavesEntryUntouched ==
  [][ \A p \in Procs, media \in MediaTypes :
        RoundFailed(p, media) =>
          /\ generalCache' = generalCache
          /\ personalizedCache' = personalizedCache
          /\ callers'[p].pool[media].how = "failure"
          /\ callers'[p].pool[media].ref = "cache"
          /\ Held(callers'[p], media) = callers[p].pool[media].before ]_vars

\* a round over a populated, stale pool has failed although some of its
\* pages arrived with items
C31_Witness ==
  /\ probe.fn = "round"
  /\ probe.result.rejected \notin {{}, {1, 2, 3, 4}}
  /\ Len(probe.result.entry[probe.result.media]) > 0
  /\ \E k \in (1..4) \ probe.result.rejected :
       Len(probe.result.pages[k].results) > 0
  /\ \E p \in Procs :
       callers[p].pool[probe.result.media].how = "failure"

\* 100 * n * (0.7 * (number of the item's genres that are preferred / n)
\*            + 0.3 * (rating / 10)), n the number of preferences
ForYouScore(item, preferences) ==
  LET preferred == {i \in 1..Len(item.genre_ids) :
                      \E k \in 1..Len(preferences) :
                         preferences[k] = item.genre_ids[i]}
  IN 70 * Cardinality(preferred) + 3 * item.vote_average * Len(preferences)

\* C32: the first category of a personalized result is For You; it holds at
\* most 20 items of the movie and series pools together, in non-increasing
\* order of the stated score, and no item of the pools left out of it scores
\* higher than one it holds.
C32_ForYouIsTopTwentyByScore ==
  [][ \A p \in Procs :
        LET c == callers[p]
            forYou == CategoriesFor(c)[1]
            pool == Held(c, "movies") \o Held(c, "tvShows")
            Scores(list) ==
              [i \in 1..Len(list) |-> ForYouScore(list[i], c.userGenres)]
        IN (Returns(p) /\ c.personalized /\ Len(c.userGenres) > 0) =>
             /\ forYou.id = "for-you"
             /\ Len(forYou.data) <= 20
             /\ NonIncreasing(Scores(forYou.data))
             /\ TopSliceOf(forYou.data, pool, Scores, 20) ]_vars

\* a personalized load is about to return the categories of pools that hold
\* more than 20 items together, not in score order
C32_Witness ==
  \E p \in Procs :
    LET c == callers[p]
        pool == Held(c, "movies") \o Held(c, "tvShows")
    IN /\ c.pc = "build"
       /\ c.personalized
       /\ Len(c.userGenres) > 0
       /\ Len(pool) > 20
       /\ \E i \in 1..(Len(pool) - 1) :
            ForYouScore(pool[i], c.userGenres)
              < ForYouScore(pool[i + 1], c.userGenres)

\* the entries among the first two of a preference list for which the pool
\* holds an item
RECURSIVE BestGenres(_, _, _)
BestGenres(preferences, pool, k) ==
  IF k > Min(2, Len(preferences)) THEN <<>>
  ELSE (IF \E item \in Range(pool) : Includes(item.genre_ids, preferences[k])
          THEN <<preferences[k]>> ELSE <<>>)
       \o BestGenres(preferences, pool, k + 1)

\* C33: after For You and Trending Now a personalized result has one Best
\* category for each of the first two entries of the preference list, in the
\* order of the list, left out exactly when no pooled item has the entry's
\* genre; each holds only pooled items whose genre ids include the genre, at
\* most 20 of them, in non-increasing rating order.
C33_BestCategoriesOfFirstTwoGenres ==
  probe.fn = "getPersonalizedCategories" =>
    LET categories == probe.result.categories
        pool == probe.result.movies \o probe.result.tvShows
        genres == BestGenres(probe.preferences, pool, 1)
    IN /\ Len(categories) = 2 + Len(genres)
       /\ \A k \in 1..Len(genres) :
            LET best == categories[2 + k]
            IN /\ best.title = "Best " \o GenreName(genres[k])
               /\ Len(best.data) > 0
               /\ Len(best.data) <= 20
               /\ \A i \in 1..Len(best.data) :
                    /\ best.data[i] \in Range(pool)
                    /\ Includes(best.data[i].genre_ids, genres[k])
               /\ NonIncreasing(Rating(best.data))

\* the builder ran on pools with more than 20 items of the first preferred
\* genre, some of the second as a later genre id, and none of the third
C33_Witness ==
  /\ probe.fn = "getPersonalizedCategories"
  /\ LET pool == probe.result.movies \o probe.result.tvShows
         Holding(genreId) ==
           {i \in 1..Len(pool) : Includes(pool[i].genre_ids, genreId)}
     IN /\ Cardinality(Holding(probe.preferences[1])) > 20
        /\ probe.preferences[2] # probe.preferences[1]
        /\ \E i \in Holding(probe.preferences[2]) :
             pool[i].genre_ids[1] # probe.preferences[2]
        /\ Holding(probe.preferences[3]) = {}

\* C38: the identity keys of the categories of one personalized result are
\* pairwise distinct, whatever list the preference store returned.
C38_CategoryKeysAreDistinct ==
  probe.fn = "getPersonalizedCategories" =>
    LET ids == CategoryIds(probe.result.categories)
    IN \A i, j \in 1..Len(ids) : i # j => ids[i] # ids[j]

\* C34: genresMatch(a, b) is true exactly when a and b have the same
\* members, and genresMatch(a, b) = genresMatch(b, a), for all lists the
\* preference store can return, lists with repeated ids included.
C34_MatchIffSameMembersAndSymmetric ==
  probe.fn = "genresMatch" =>
    /\ probe.result.forth
         = (Range(probe.preferences) = Range(probe.contentGenreIds))
    /\ probe.result.forth = probe.result.back

\* search t was started after search s: the one filter change of the session
\* so far happened between them
StartedLater(t, s) ==
  /\ used.toggles = 1
  /\ searches[s].pc # "idle"
  /\ searches[t].pc # "idle"
  /\ searches[s].filters # DefaultSort(screen.selectedGenreFilters)
  /\ searches[t].filters = DefaultSort(screen.selectedGenreFilters)

\* C35, for the search screen: when the response of a search arrives while
\* the screen shows the results of a search that was started later, the
\* results shown stay as they are.
C35_LateResponseIsDiscarded ==
  [][ \A s, t \in SearchSlots :
        ( /\ StartedLater(t, s)
          /\ searches[s].pc = "wait"
          /\ searches[t].pc = "history"
          /\ screen.searchResults =
               SearchResultsOf(searchMulti(searches[t].query),
                               searches[t].filters, searches[t].preferences)
          /\ searches'[s].pc # "wait" )
        => screen'.searchResults = screen.searchResults ]_vars

\* a population round of some invocation has just stored its pool
RoundStored ==
  \E p \in Procs, media \in MediaTypes :
     /\ callers[p].pool[media].pending
     /\ callers'[p].pool[media].how = "success"

\* C36: when rounds overlap, a round that completes stores nothing older
\* than what the entry holds: the timestamp of neither entry moves backwards
\* when a round stores its pool.
C36_RoundNeverMovesTimestampBack ==
  [][ RoundStored =>
        /\ generalCache'.lastUpdate >= generalCache.lastUpdate
        /\ personalizedCache'.lastUpdate >= personalizedCache.lastUpdate
    ]_vars

\* C37: when two adds of different ids issued without awaiting one another
\* have both completed and no storage access failed, the stored list holds
\* both ids.
C37_BothAddsAreStored ==
  ( /\ probe.fn = "addGenrePreference"
    /\ probe.readOk
    /\ \A w \in Calls : CallOf(w).pc = "idle" )
  => \A k \in 1..2 :
       Includes(getGenrePreferences(storage, TRUE), probe.preferences[k])

\* a search has just been started and was served from searchCache
ServedFromCache ==
  /\ used'.asked + used'.extras > used.asked + used.extras
  /\ observed'.search.present
  /\ observed'.search.calls = 0

\* C39: the list a search shows from searchCache is the list the pipeline
\* builds for the query, the filters and the preferences the screen holds
\* when the search is called.
C39_CachedListFollowsCurrentPreferences ==
  [][ ServedFromCache =>
        screen'.searchResults =
          SearchResultsOf(searchMulti(trim(screen.searchQuery)),
                          DefaultSort(screen.selectedGenreFilters),
                          screen.userPreferences) ]_vars

====
